---- MODULE Spec2Model ----
(***************************************************************************)
(* Stream scheduling engine of the OBS dashboard backend                   *)
(* (handlers/scheduler.ts): the in-memory timer map activeSchedules, the   *)
(* planner calculateNextExecution and the timer callbacks                  *)
(* executeScheduledStart / executeScheduledStop, over the tables they      *)
(* read and write.                                                         *)
(*                                                                         *)
(* Time is counted in minutes since the Unix epoch (the code counts        *)
(* milliseconds; every instant the planner produces is a whole minute).    *)
(* A JavaScript Date is its instant; the local-time methods setHours,      *)
(* setDate and getDay are computed with the host's UTC offset hostOffset.  *)
(* "HH:MM" strings are sequences of one-character strings.                 *)
(***************************************************************************)
EXTENDS Integers, Sequences, FiniteSets, TLC

VARIABLES
    now,                \* the clock (new Date()), minutes since the epoch
    hostOffset,         \* UTC offset of the host's local timezone, minutes
    schedulesTable,     \* schedule id -> row of table schedules
    obsInstancesTable,  \* instance id -> row of table obs_instances
    scenesTable,        \* scene id -> row of table scenes
    streamEventsTable,  \* rows of table stream_events, in insertion order
    notificationsTable, \* rows of table notifications, in insertion order
    mockStreamDatabase, \* the Map<string, YouTubeStreamData> of youtube_integration.ts
    timers,             \* the runtime's pending (uncancelled, unfired) timeouts
    activeSchedules,    \* the Map<number, Timer[]> of scheduler.ts
    calls,              \* async calls in flight, each suspended at an await
    fireLog,            \* history: the timer callbacks that have run
    owedStops,          \* history: stops paired with a start that has fired
    directCalls,        \* history: executeScheduledStart/Stop calls made over RPC
    failures,           \* history: database calls that have rejected
    inits,              \* history: initializeScheduler calls that have returned
    rpcCalls,           \* history: scheduler calls made while calls interleave
    lastOp              \* history: the call that has just returned, else NoOp

vars == <<now, hostOffset, schedulesTable, obsInstancesTable, scenesTable, streamEventsTable,
          notificationsTable, mockStreamDatabase, timers, activeSchedules, calls,
          fireLog, owedStops, directCalls, failures, inits, rpcCalls, lastOp>>

(***************************************************************************)
(* Bounds of the model.                                                    *)
(***************************************************************************)
StartNow == 5760         \* the clock at boot: 1970-01-05 (a Monday) 00:00 UTC
Horizon == 1500          \* the clock stops this many minutes after StartNow
TickGrain == 1440        \* the clock advances to the next multiple, or timer
MaxCalls == 2            \* async calls in flight at once
MaxDirect == 1           \* executeScheduledStart/Stop calls made over RPC
MaxFailures == 1         \* database calls that reject
MaxInits == 1            \* initializeScheduler calls counted
MaxRpc == 2              \* scheduler calls made over RPC while calls interleave
MaxSchedules == 3        \* rows of table schedules
MaxEvents == 3           \* rows of stream_events written by startStream/stopStream
MaxList == 3             \* schedules in one validateScheduleConflicts call
PlanStep == 30           \* minutes between the clocks the planner is called at
PlanSteps == 400         \* number of such clocks after StartNow

(***************************************************************************)
(* Program constants.                                                      *)
(***************************************************************************)
MinutesPerDay == 1440
IstOffset == 330         \* istOffset = 5.5 * 60 * 60 * 1000 ms
LookaheadDays == 14      \* for (daysAhead = 0; daysAhead <= 14; ...)
EpochWeekday == 4        \* 1970-01-01 was a Thursday (Date.getDay() = 4)
MinBreakTime == 5        \* const minBreakTime = 5
MsPerSecond == 1000      \* (now.getTime() - startTime.getTime()) / 1000
MinStreamKeyLength == 10     \* streamKey.length < 10
MaxTitleLength == 100        \* metadata.title.length > 100
MaxDescriptionLength == 5000 \* metadata.description.length > 5000
MaxTags == 30                \* metadata.tags.length > 30
MaxTagLength == 100          \* tag.length > 100

\* null / undefined, and a value that is present.
Null == <<>>
Some(v) == <<v>>
Val(o) == o[1]

(***************************************************************************)
(* Strings and numbers.                                                    *)
(***************************************************************************)
Digits == <<"0", "1", "2", "3", "4", "5", "6", "7", "8", "9">>

\* The value of one decimal digit character.
DigitValue(c) == (CHOOSE i \in 1..10 : Digits[i] = c) - 1

\* Number(str) for a string of decimal digits; Number("") is 0.
RECURSIVE Number(_)
Number(s) ==
    IF s = <<>> THEN 0
    ELSE 10 * Number(SubSeq(s, 1, Len(s) - 1)) + DigitValue(s[Len(s)])

\* timeStr.split(':'), the first two parts.
Split(s) ==
    LET colons == {i \in 1..Len(s) : s[i] = ":"}
        first == IF colons = {} THEN Len(s) + 1
                 ELSE CHOOSE i \in colons : \A j \in colons : i <= j
        rest == SubSeq(s, first + 1, Len(s))
        colons2 == {i \in 1..Len(rest) : rest[i] = ":"}
        second == IF colons2 = {} THEN Len(rest) + 1
                  ELSE CHOOSE i \in colons2 : \A j \in colons2 : i <= j
    IN  <<SubSeq(s, 1, first - 1), SubSeq(rest, 1, second - 1)>>

\* const [hours, minutes] = time.split(':').map(Number)
HoursMinutes(s) == <<Number(Split(s)[1]), Number(Split(s)[2])>>

\* array.includes(x)
Includes(arr, x) == \E i \in 1..Len(arr) : arr[i] = x

(***************************************************************************)
(* JavaScript Date in a host whose local time is UTC + tz minutes.         *)
(***************************************************************************)
\* The local calendar day (days since the epoch) of instant t.
LocalDay(t, tz) == (t + tz) \div MinutesPerDay

\* date.setHours(h, m, 0, 0): same local day, local time h:m.
SetHours(t, h, m, tz) == LocalDay(t, tz) * MinutesPerDay + h * 60 + m - tz

\* date.setDate(date.getDate() + k): k local days later, same local time.
AddDays(t, k) == t + k * MinutesPerDay

\* The mutant of getDay() numbers Sunday 7, as ISO weekdays are.
GetDayIso(t, tz) ==
    LET d == (LocalDay(t, tz) + EpochWeekday) % 7
    IN  IF d = 0 THEN 7 ELSE d

\* date.getDay(): 0 = Sunday.
GetDay(t, tz) == (LocalDay(t, tz) + EpochWeekday) % 7

(***************************************************************************)
(* calculateNextExecution                                                  *)
(***************************************************************************)
\* executionUTC > now, with the comparison of the mutant below.
AfterOrAt(t, n) == t >= n

\* if (executionUTC > now) return executionUTC
After(t, n) == t > n

\* The one-time branch: start_time on the day of execution_date.
OneTimeExecution(schedule, clock, tz) ==
    LET hm == HoursMinutes(schedule.start_time)
        executionDate == Val(schedule.execution_date)
        executionIST == SetHours(executionDate + IstOffset, hm[1], hm[2], tz)
        executionUTC == executionIST - IstOffset
    IN  IF After(executionUTC, clock) THEN Some(executionUTC) ELSE Null

\* The candidate of the recurring loop for one value of daysAhead.
CheckDate(schedule, clock, tz, daysAhead) ==
    LET hm == HoursMinutes(schedule.start_time)
        nowIST == clock + IstOffset
    IN  SetHours(AddDays(nowIST, daysAhead), hm[1], hm[2], tz)

\* The recurring branch: the first day of the next 14 whose weekday is listed
\* and whose start is in the future.
RecurringExecution(schedule, clock, tz) ==
    LET hits == {d \in 0..LookaheadDays :
                    /\ Includes(schedule.days_of_week, GetDay(CheckDate(schedule, clock, tz, d), tz))
                    /\ After(CheckDate(schedule, clock, tz, d) - IstOffset, clock)}
    IN  IF Len(schedule.days_of_week) = 0 \/ hits = {} THEN Null
        ELSE LET d == CHOOSE x \in hits : \A y \in hits : x <= y
             IN  Some(CheckDate(schedule, clock, tz, d) - IstOffset)

CalculateNextExecution(schedule, clock, tz) ==
    IF schedule.is_one_time /\ schedule.execution_date # Null
    THEN OneTimeExecution(schedule, clock, tz)
    ELSE RecurringExecution(schedule, clock, tz)


(***************************************************************************)
(* Tables.  A schedule row carries the columns the scheduler reads.        *)
(***************************************************************************)
T0600 == <<"0", "6", ":", "0", "0">>
T0700 == <<"0", "7", ":", "0", "0">>
T1200 == <<"1", "2", ":", "0", "0">>
T1300 == <<"1", "3", ":", "0", "0">>
T2300 == <<"2", "3", ":", "0", "0">>
T0100 == <<"0", "1", ":", "0", "0">>

EveryDay == <<0, 1, 2, 3, 4, 5, 6>>

Row(id, start, end, days, active, oneTime, date) ==
    [id |-> id, obs_instance_id |-> 1, start_time |-> start, end_time |-> end,
     days_of_week |-> days, is_active |-> active, is_one_time |-> oneTime,
     execution_date |-> date]

\* The schedules tables the runs start from.  The one-time schedule is dated
\* the day of boot: its start is 12:00 IST that day.
NoDaysFirst ==
    <<Row(1, T0600, T0700, <<>>, TRUE, FALSE, Null),
      Row(2, T0600, T0700, EveryDay, TRUE, FALSE, Null),
      Row(3, T1200, T1300, <<>>, FALSE, TRUE, Some(StartNow))>>

OvernightAndOneTime ==
    <<Row(1, T2300, T0100, <<1, 3>>, TRUE, FALSE, Null),
      Row(2, T1200, T1300, <<>>, TRUE, TRUE, Some(StartNow))>>

ScheduleTables == {NoDaysFirst, OvernightAndOneTime}

\* The local timezones of the hosts the runs are made on: UTC and IST.
HostOffsets == {0, IstOffset}

\* A schedule id no table holds: unscheduleStream(999), executeScheduledStart(999).
MissingId == 999

CallIds == 1..MaxCalls

(***************************************************************************)
(* Calls in flight and the record of the call that has just returned.      *)
(***************************************************************************)
Idle ==
    [op |-> "idle", pc |-> "", id |-> 0, sched |-> Null, list |-> <<>>,
     next |-> Null, via |-> "", at |-> 0, inst |-> Null, wroteEvents |-> 0,
     wroteNotifs |-> 0, hadEntry |-> FALSE, order |-> <<>>, cancelled |-> {},
     again |-> FALSE, input |-> Null]

NoOp ==
    [op |-> "none", id |-> 0, success |-> FALSE, error |-> "", via |-> "",
     at |-> 0, found |-> FALSE, failed |-> FALSE, sched |-> Null,
     wroteEvents |-> 0, wroteNotifs |-> 0, hadEntry |-> FALSE, order |-> <<>>,
     cancelled |-> {}, again |-> FALSE, result |-> Null, schedules |-> <<>>,
     input |-> Null, message |-> ""]

\* What a returning call leaves in lastOp.
Returned(f, success, error, found, failed) ==
    [op |-> f.op, id |-> f.id, success |-> success, error |-> error,
     via |-> f.via, at |-> f.at, found |-> found, failed |-> failed,
     sched |-> f.sched, wroteEvents |-> f.wroteEvents,
     wroteNotifs |-> f.wroteNotifs, hadEntry |-> f.hadEntry,
     order |-> f.order, cancelled |-> f.cancelled, again |-> f.again,
     result |-> Null, schedules |-> <<>>, input |-> Null, message |-> ""]

AllIdle == \A c \in CallIds : calls[c].op = "idle"

HasFreeSlot == \E c \in CallIds : calls[c].op = "idle"

FreeSlot == CHOOSE c \in CallIds :
                /\ calls[c].op = "idle"
                /\ \A d \in CallIds : calls[d].op = "idle" => c <= d

\* A new call may begin: always when calls interleave at their awaits, only
\* when no call is in flight when every call runs to completion.
CanBegin(serial) == HasFreeSlot /\ (serial => AllIdle)

\* A call over RPC is counted, and bounded, when calls interleave.
RpcAllowed(serial) == serial \/ rpcCalls < MaxRpc
RpcCounted(serial) == rpcCalls' = IF serial THEN rpcCalls ELSE rpcCalls + 1

(***************************************************************************)
(* Timers.                                                                 *)
(***************************************************************************)
\* The handles of an entry of activeSchedules, as a set.
Handles(entry) == {entry[i] : i \in 1..Len(entry)}

UsedHandles ==
    {t.h : t \in timers} \cup UNION {Handles(activeSchedules[i]) : i \in DOMAIN activeSchedules}

\* setTimeout returns a Timer distinct from every Timer still held; a Timer is
\* named by the schedule id and the kind it is created for, and a number.
NewHandle(used, id, kind) ==
    LET free == {n \in 1..(Cardinality(used) + 1) : <<id, kind, n>> \notin used}
    IN  <<id, kind, CHOOSE n \in free : \A m \in free : n <= m>>

\* timers.forEach(timer => clearTimeout(timer)), with the mutant that clears
\* only the first timer of the entry.
ClearFirstTimerOnly(tm, entry) == {t \in tm : Len(entry) = 0 \/ t.h # entry[1]}

\* timers.forEach(timer => clearTimeout(timer))
ClearTimers(tm, entry) == {t \in tm : t.h \notin Handles(entry)}

\* The Map with the entry of id deleted.
MapWithout(act, ids) == [i \in DOMAIN act \ ids |-> act[i]]
MapDelete(act, id) == MapWithout(act, {id})

\* The Map with the entry of id set.
MapSet(act, id, entry) ==
    [i \in DOMAIN act \cup {id} |-> IF i = id THEN entry ELSE act[i]]

\* unscheduleStream, the pending timers it leaves; the mutant forgets the
\* timers and only deletes the entry.
UnscheduleTimersKept(act, tm, id) == tm

\* Another mutant: only the start timer of the entry is cleared.
UnscheduleTimersOfStart(act, tm, id) ==
    IF id \in DOMAIN act
    THEN {t \in tm : t.h \notin Handles(act[id]) \/ t.kind = "stop"}
    ELSE tm

UnscheduleTimers(act, tm, id) ==
    IF id \in DOMAIN act THEN ClearTimers(tm, act[id]) ELSE tm

\* unscheduleStream, the Map it leaves; the mutant clears the Map
\* (activeSchedules.clear() for activeSchedules.delete(scheduleId)).
UnscheduleMapCleared(act, id) ==
    IF id \in DOMAIN act THEN MapWithout(act, DOMAIN act) ELSE act

UnscheduleMap(act, id) ==
    IF id \in DOMAIN act THEN MapDelete(act, id) ELSE act

\* The pending timers of one schedule id.
PendingOf(id) == {t \in timers : t.id = id}
PendingKind(id, kind) == {t \in timers : t.id = id /\ t.kind = kind}


(***************************************************************************)
(* scheduleStream: the part after calculateNextExecution.                  *)
(***************************************************************************)
\* The mutant of endTime never moves it to the next day.
EndTimeSameDay(schedule, nextExecution, tz) ==
    LET hm == HoursMinutes(schedule.end_time)
    IN  SetHours(nextExecution, hm[1], hm[2], tz)

\* endTime: nextExecution with the hours of end_time, a day later when that
\* is not after the start.
EndTime(schedule, nextExecution, tz) ==
    LET hm == HoursMinutes(schedule.end_time)
        endTime == SetHours(nextExecution, hm[1], hm[2], tz)
    IN  IF endTime <= nextExecution THEN AddDays(endTime, 1) ELSE endTime

\* The timers scheduleStream creates: the start timer, and the end timer when
\* timeUntilEnd > 0.
NewTimers(schedule, nextExecution, clock, tz, used) ==
    LET endTime == EndTime(schedule, nextExecution, tz)
        startTimer == [h |-> NewHandle(used, schedule.id, "start"),
                       id |-> schedule.id, kind |-> "start",
                       at |-> nextExecution, cycle |-> nextExecution]
        endTimer == [h |-> NewHandle(used, schedule.id, "stop"),
                     id |-> schedule.id, kind |-> "stop",
                     at |-> endTime, cycle |-> nextExecution]
    IN  IF endTime - clock > 0 THEN <<startTimer, endTimer>> ELSE <<startTimer>>

\* The inner scheduleStream of call c has returned {success, error}: the
\* loop of initializeScheduler goes on to the next schedule, any other
\* caller returns.
ScheduleStreamReturns(c, success, error) ==
    LET f == calls[c]
    IN  IF f.op = "initializeScheduler"
        THEN /\ calls' = [calls EXCEPT ![c] = [f EXCEPT !.pc = "loop",
                                                       !.list = Tail(f.list),
                                                       !.next = Null]]
             /\ lastOp' = NoOp
        ELSE /\ calls' = [calls EXCEPT ![c] = Idle]
             /\ lastOp' = Returned(f, success, error, TRUE, FALSE)

\* scheduleStream(schedule) is called over RPC with the persisted row of id:
\* it runs unscheduleStream and suspends at its first await.
ScheduleStream(id, serial) ==
    /\ CanBegin(serial)
    /\ RpcAllowed(serial)
    /\ RpcCounted(serial)
    /\ id \in DOMAIN schedulesTable
    /\ timers' = UnscheduleTimers(activeSchedules, timers, id)
    /\ activeSchedules' = UnscheduleMap(activeSchedules, id)
    /\ calls' = [calls EXCEPT ![FreeSlot] =
                    [Idle EXCEPT !.op = "scheduleStream", !.pc = "calc", !.id = id,
                                 !.sched = Some(schedulesTable[id]), !.via = "rpc",
                                 !.at = now,
                                 !.hadEntry = (id \in DOMAIN activeSchedules),
                                 !.cancelled = timers \ UnscheduleTimers(activeSchedules, timers, id)]]
    /\ owedStops' = {o \in owedStops : o.id # id}
    /\ lastOp' = NoOp
    /\ UNCHANGED <<mockStreamDatabase, scenesTable, now, hostOffset, schedulesTable, obsInstancesTable,
                   streamEventsTable, notificationsTable, fireLog, directCalls, failures, inits>>

\* const nextExecution = await calculateNextExecution(schedule)
CalcStep(c) ==
    LET f == calls[c]
        nextExecution == CalculateNextExecution(Val(f.sched), now, hostOffset)
    IN  /\ f.pc = "calc"
        /\ IF nextExecution = Null
           THEN ScheduleStreamReturns(c, FALSE, "No valid next execution time found")
           ELSE /\ calls' = [calls EXCEPT ![c] = [f EXCEPT !.pc = "arm",
                                                          !.next = nextExecution]]
                /\ lastOp' = NoOp
        /\ UNCHANGED <<mockStreamDatabase, scenesTable, now, hostOffset, schedulesTable, obsInstancesTable,
                       streamEventsTable, notificationsTable, timers,
                       activeSchedules, fireLog, owedStops, directCalls, failures, inits, rpcCalls>>

\* The rest of scheduleStream: the timers are created and stored.
ArmStep(c) ==
    LET f == calls[c]
        schedule == Val(f.sched)
        nextExecution == Val(f.next)
        created == NewTimers(schedule, nextExecution, now, hostOffset, UsedHandles)
    IN  /\ f.pc = "arm"
        /\ IF nextExecution - now <= 0
           THEN /\ ScheduleStreamReturns(c, FALSE, "Calculated execution time is in the past")
                /\ UNCHANGED <<mockStreamDatabase, scenesTable, timers, activeSchedules>>
           ELSE /\ timers' = timers \cup Handles(created)
                /\ activeSchedules' = MapSet(activeSchedules, schedule.id,
                                             IF Len(created) = 2
                                             THEN <<created[1].h, created[2].h>>
                                             ELSE <<created[1].h>>)
                /\ ScheduleStreamReturns(c, TRUE, "")
        /\ UNCHANGED <<mockStreamDatabase, scenesTable, now, hostOffset, schedulesTable, obsInstancesTable,
                       streamEventsTable, notificationsTable, fireLog, owedStops,
                       directCalls, failures, inits, rpcCalls>>

(***************************************************************************)
(* unscheduleStream: no await, so it runs in one step.                     *)
(***************************************************************************)
UnscheduleStream(id, serial) ==
    /\ serial => AllIdle
    /\ RpcAllowed(serial)
    /\ RpcCounted(serial)
    /\ id \in DOMAIN schedulesTable \cup {MissingId}
    /\ timers' = UnscheduleTimers(activeSchedules, timers, id)
    /\ activeSchedules' = UnscheduleMap(activeSchedules, id)
    /\ owedStops' = {o \in owedStops : o.id # id}
    /\ lastOp' = [NoOp EXCEPT !.op = "unscheduleStream", !.id = id, !.success = TRUE,
                              !.via = "rpc", !.at = now,
                              !.hadEntry = (id \in DOMAIN activeSchedules),
                              !.cancelled = timers \ UnscheduleTimers(activeSchedules, timers, id)]
    /\ UNCHANGED <<mockStreamDatabase, scenesTable, now, hostOffset, schedulesTable, obsInstancesTable,
                   streamEventsTable, notificationsTable, calls, fireLog,
                   directCalls, failures, inits>>

(***************************************************************************)
(* initializeScheduler                                                     *)
(***************************************************************************)
\* activeSchedules.forEach(timers => timers.forEach(clearTimeout)); the mutant
\* clears the Map and leaves the timers running.
ClearAllKept(act, tm) == tm

ClearAll(act, tm) ==
    {t \in tm : \A i \in DOMAIN act : t.h \notin Handles(act[i])}

\* where(eq(schedulesTable.is_active, true)); the mutant drops the filter.
SelectAll(table) == DOMAIN table

SelectActive(table) == {i \in DOMAIN table : table[i].is_active}

\* The orders a select without ORDER BY may return the rows of ids in.
Orders(ids) ==
    {o \in [1..Cardinality(ids) -> ids] : \A i, j \in DOMAIN o : i # j => o[i] # o[j]}

\* The call: the timers are cleared, the Map is emptied, the select is sent.
InitializeScheduler(serial) ==
    /\ CanBegin(serial)
    /\ RpcAllowed(serial)
    /\ RpcCounted(serial)
    /\ timers' = ClearAll(activeSchedules, timers)
    /\ activeSchedules' = MapWithout(activeSchedules, DOMAIN activeSchedules)
    /\ calls' = [calls EXCEPT ![FreeSlot] =
                    [Idle EXCEPT !.op = "initializeScheduler", !.pc = "select",
                                 !.via = "init", !.at = now, !.again = (inits > 0),
                                 !.cancelled = timers \ ClearAll(activeSchedules, timers)]]
    /\ owedStops' = {}
    /\ lastOp' = NoOp
    /\ UNCHANGED <<mockStreamDatabase, scenesTable, now, hostOffset, schedulesTable, obsInstancesTable,
                   streamEventsTable, notificationsTable, fireLog, directCalls, failures, inits>>

\* The select returns the active rows.
InitSelect(c) ==
    LET f == calls[c]
    IN  /\ f.op = "initializeScheduler"
        /\ f.pc = "select"
        /\ \E o \in Orders(SelectActive(schedulesTable)) :
              calls' = [calls EXCEPT ![c] =
                           [f EXCEPT !.pc = "loop",
                                     !.list = [i \in DOMAIN o |-> schedulesTable[o[i]]],
                                     !.order = o]]
        /\ lastOp' = NoOp
        /\ UNCHANGED <<mockStreamDatabase, scenesTable, now, hostOffset, schedulesTable, obsInstancesTable,
                       streamEventsTable, notificationsTable, timers,
                       activeSchedules, fireLog, owedStops, directCalls, failures, inits, rpcCalls>>

\* One turn of the loop: scheduleStream(schedule) is called and suspends after
\* its unscheduleStream; after the last schedule the call returns.
InitLoop(c) ==
    LET f == calls[c]
    IN  /\ f.op = "initializeScheduler"
        /\ f.pc = "loop"
        /\ IF f.list = <<>>
           THEN /\ calls' = [calls EXCEPT ![c] = Idle]
                /\ lastOp' = Returned(f, TRUE, "", TRUE, FALSE)
                /\ inits' = IF inits < MaxInits THEN inits + 1 ELSE inits
                /\ UNCHANGED <<mockStreamDatabase, scenesTable, timers, activeSchedules>>
           ELSE /\ timers' = UnscheduleTimers(activeSchedules, timers, Head(f.list).id)
                /\ activeSchedules' = UnscheduleMap(activeSchedules, Head(f.list).id)
                /\ calls' = [calls EXCEPT ![c] =
                                [f EXCEPT !.pc = "calc", !.id = Head(f.list).id,
                                          !.sched = Some(Head(f.list))]]
                /\ lastOp' = NoOp
                /\ UNCHANGED inits
        /\ UNCHANGED <<mockStreamDatabase, scenesTable, now, hostOffset, schedulesTable, obsInstancesTable,
                       streamEventsTable, notificationsTable, fireLog, owedStops,
                       directCalls, failures, rpcCalls>>


(***************************************************************************)
(* executeScheduledStart and executeScheduledStop, run by a timer or       *)
(* called over RPC.                                                        *)
(***************************************************************************)
\* The stops paired with the start timer t that are pending when t fires.
PairedStops(t) ==
    {[id |-> s.id, at |-> s.at] :
        s \in {x \in timers : x.id = t.id /\ x.kind = "stop" /\ x.cycle = t.cycle}}

\* A due timer runs its callback, which suspends at its select.
FireTimer(t, serial) ==
    /\ CanBegin(serial)
    /\ t \in timers
    /\ t.at <= now
    /\ timers' = timers \ {t}
    /\ fireLog' = Append(fireLog, [kind |-> t.kind, id |-> t.id, at |-> t.at])
    /\ owedStops' = IF t.kind = "start" THEN owedStops \cup PairedStops(t)
                    ELSE owedStops \ {[id |-> t.id, at |-> t.at]}
    /\ calls' = [calls EXCEPT ![FreeSlot] =
                    [Idle EXCEPT !.op = IF t.kind = "start" THEN "executeScheduledStart"
                                        ELSE "executeScheduledStop",
                                 !.pc = "select", !.id = t.id, !.via = "timer",
                                 !.at = t.at]]
    /\ lastOp' = NoOp
    /\ UNCHANGED <<mockStreamDatabase, scenesTable, now, hostOffset, schedulesTable, obsInstancesTable,
                   streamEventsTable, notificationsTable, activeSchedules,
                   directCalls, failures, inits, rpcCalls>>

\* executeScheduledStart(id) or executeScheduledStop(id) called over RPC.
ExecuteDirect(op, id, serial) ==
    /\ CanBegin(serial)
    /\ directCalls < MaxDirect
    /\ id \in DOMAIN schedulesTable \cup {MissingId}
    /\ directCalls' = directCalls + 1
    /\ calls' = [calls EXCEPT ![FreeSlot] =
                    [Idle EXCEPT !.op = op, !.pc = "select", !.id = id,
                                 !.via = "rpc", !.at = now]]
    /\ lastOp' = NoOp
    /\ UNCHANGED <<mockStreamDatabase, scenesTable, now, hostOffset, schedulesTable, obsInstancesTable,
                   streamEventsTable, notificationsTable, timers,
                   activeSchedules, fireLog, owedStops, failures, inits, rpcCalls>>

IsFire(f) == f.op \in {"executeScheduledStart", "executeScheduledStop"}

\* schedules inner join obs_instances where schedules.id = scheduleId
JoinFound(id) ==
    /\ id \in DOMAIN schedulesTable
    /\ schedulesTable[id].obs_instance_id \in DOMAIN obsInstancesTable

\* The mutant of the select: finding no row, it clears every timer and the
\* Map before it returns.
FireSelectResetting(c) ==
    LET f == calls[c]
    IN  /\ IsFire(f)
        /\ f.pc = "select"
        /\ IF JoinFound(f.id)
           THEN /\ calls' = [calls EXCEPT ![c] =
                                [f EXCEPT !.pc = "update",
                                          !.sched = Some(schedulesTable[f.id]),
                                          !.inst = Some(schedulesTable[f.id].obs_instance_id)]]
                /\ lastOp' = NoOp
                /\ UNCHANGED <<mockStreamDatabase, scenesTable, timers, activeSchedules>>
           ELSE /\ calls' = [calls EXCEPT ![c] = Idle]
                /\ lastOp' = Returned(f, FALSE, "", FALSE, FALSE)
                /\ timers' = {}
                /\ activeSchedules' = MapWithout(activeSchedules, DOMAIN activeSchedules)
        /\ UNCHANGED <<mockStreamDatabase, scenesTable, now, hostOffset, schedulesTable, obsInstancesTable,
                       streamEventsTable, notificationsTable, fireLog, owedStops,
                       directCalls, failures, inits, rpcCalls>>

\* The select returns: no row ends the call, a row sends the update.
FireSelect(c) ==
    LET f == calls[c]
    IN  /\ IsFire(f)
        /\ f.pc = "select"
        /\ IF JoinFound(f.id)
           THEN /\ calls' = [calls EXCEPT ![c] =
                                [f EXCEPT !.pc = "update",
                                          !.sched = Some(schedulesTable[f.id]),
                                          !.inst = Some(schedulesTable[f.id].obs_instance_id)]]
                /\ lastOp' = NoOp
           ELSE /\ calls' = [calls EXCEPT ![c] = Idle]
                /\ lastOp' = Returned(f, FALSE, "", FALSE, FALSE)
        /\ UNCHANGED <<mockStreamDatabase, scenesTable, now, hostOffset, schedulesTable, obsInstancesTable,
                       streamEventsTable, notificationsTable, timers,
                       activeSchedules, fireLog, owedStops, directCalls, failures, inits, rpcCalls>>

\* update obs_instances set is_streaming, status where id = obsInstance.id
FireUpdate(c) ==
    LET f == calls[c]
        inst == Val(f.inst)
    IN  /\ IsFire(f)
        /\ f.pc = "update"
        /\ obsInstancesTable' =
              IF inst \in DOMAIN obsInstancesTable
              THEN [obsInstancesTable EXCEPT
                       ![inst] = [@ EXCEPT !.is_streaming = (f.op = "executeScheduledStart"),
                                           !.status = "connected"]]
              ELSE obsInstancesTable
        /\ calls' = [calls EXCEPT ![c] = [f EXCEPT !.pc = "insertEvent"]]
        /\ lastOp' = NoOp
        /\ UNCHANGED <<mockStreamDatabase, scenesTable, now, hostOffset, schedulesTable, streamEventsTable,
                       notificationsTable, timers, activeSchedules, fireLog,
                       owedStops, directCalls, failures, inits, rpcCalls>>

\* insert into stream_events
FireInsertEvent(c) ==
    LET f == calls[c]
    IN  /\ IsFire(f)
        /\ f.pc = "insertEvent"
        /\ streamEventsTable' =
              Append(streamEventsTable,
                     [obs_instance_id |-> Val(f.inst), schedule_id |-> f.id,
                      event_type |-> IF f.op = "executeScheduledStart"
                                     THEN "stream_start" ELSE "stream_stop"])
        /\ calls' = [calls EXCEPT ![c] = [f EXCEPT !.pc = "insertNotification",
                                                  !.wroteEvents = f.wroteEvents + 1]]
        /\ lastOp' = NoOp
        /\ UNCHANGED <<mockStreamDatabase, scenesTable, now, hostOffset, schedulesTable, obsInstancesTable,
                       notificationsTable, timers, activeSchedules, fireLog,
                       owedStops, directCalls, failures, inits, rpcCalls>>

\* if (!schedule.is_one_time) await scheduleStream(scheduleObj), which only
\* executeScheduledStart holds; the mutant holds it in executeScheduledStop
\* as well.
RearmsAfterStop(f) == ~Val(f.sched).is_one_time

Rearms(f) == f.op = "executeScheduledStart" /\ ~Val(f.sched).is_one_time

\* insert into notifications; then a start of a recurring schedule calls
\* scheduleStream, which runs unscheduleStream and suspends; any other call
\* returns.
FireInsertNotification(c) ==
    LET f == calls[c]
        g == [f EXCEPT !.wroteNotifs = f.wroteNotifs + 1]
        rearm == Rearms(f)
    IN  /\ IsFire(f)
        /\ f.pc = "insertNotification"
        /\ notificationsTable' =
              Append(notificationsTable,
                     [schedule_id |-> f.id,
                      notification_type |-> IF f.op = "executeScheduledStart"
                                            THEN "stream_start" ELSE "stream_stop"])
        /\ IF rearm
           THEN /\ timers' = UnscheduleTimers(activeSchedules, timers, f.id)
                /\ activeSchedules' = UnscheduleMap(activeSchedules, f.id)
                /\ calls' = [calls EXCEPT ![c] = [g EXCEPT !.pc = "calc"]]
                /\ lastOp' = NoOp
           ELSE /\ calls' = [calls EXCEPT ![c] = Idle]
                /\ lastOp' = Returned(g, TRUE, "", TRUE, FALSE)
                /\ UNCHANGED <<mockStreamDatabase, scenesTable, timers, activeSchedules>>
        /\ UNCHANGED <<mockStreamDatabase, scenesTable, now, hostOffset, schedulesTable, obsInstancesTable,
                       streamEventsTable, fireLog, owedStops, directCalls, failures, inits, rpcCalls>>

\* The database call the call c is suspended at may reject.
MayReject(f) ==
    \/ IsFire(f) /\ f.pc \in {"select", "update", "insertEvent", "insertNotification"}
    \/ f.op = "initializeScheduler" /\ f.pc = "select"

\* What the catch block makes of the rejection: a timer callback logs it
\* and returns, initializeScheduler rethrows it.
Outcome(f) == IF IsFire(f) THEN "caught" ELSE "threw"

\* The mutant of the rejection below: the callback of a start sets its
\* timer anew, to try the start again.
DbFailureRetrying(c) ==
    LET f == calls[c]
    IN  /\ MayReject(f)
        /\ failures < MaxFailures
        /\ failures' = failures + 1
        /\ calls' = [calls EXCEPT ![c] = Idle]
        /\ lastOp' = Returned(f, FALSE, Outcome(f), f.sched # Null, TRUE)
        /\ timers' = IF f.op = "executeScheduledStart"
                     THEN timers \cup {[h |-> NewHandle(UsedHandles, f.id, "start"),
                                        id |-> f.id, kind |-> "start",
                                        at |-> f.at, cycle |-> f.at]}
                     ELSE timers
        /\ UNCHANGED <<mockStreamDatabase, scenesTable, now, hostOffset, schedulesTable, obsInstancesTable,
                       streamEventsTable, notificationsTable,
                       activeSchedules, fireLog, owedStops, directCalls, inits, rpcCalls>>

\* A database call rejects.
DbFailure(c) ==
    LET f == calls[c]
    IN  /\ MayReject(f)
        /\ failures < MaxFailures
        /\ failures' = failures + 1
        /\ calls' = [calls EXCEPT ![c] = Idle]
        /\ lastOp' = Returned(f, FALSE, Outcome(f), f.sched # Null, TRUE)
        /\ UNCHANGED <<mockStreamDatabase, scenesTable, now, hostOffset, schedulesTable, obsInstancesTable,
                       streamEventsTable, notificationsTable, timers,
                       activeSchedules, fireLog, owedStops, directCalls, inits, rpcCalls>>

(***************************************************************************)
(* calculateNextExecution called over RPC with a schedule of the caller's. *)
(***************************************************************************)
T0900 == <<"0", "9", ":", "0", "0">>
T1000 == <<"1", "0", ":", "0", "0">>
T0010 == <<"0", "0", ":", "1", "0">>
T2359 == <<"2", "3", ":", "5", "9">>
T1500 == <<"1", "5", ":", "0", "0">>
T1400 == <<"1", "4", ":", "0", "0">>

PlanStarts == {T0900, T0010, T2359}

PlanDays == {<<>>, <<1, 3, 5>>, <<5, 1, 3>>, EveryDay, <<0>>, <<6>>, <<2>>, <<0, 6>>, <<4, 2>>}

\* execution_date values: midnight UTC of the third day, its evening (the
\* next civil day in UTC+5:30), and the day before boot; a one-time schedule
\* may also have none (execution_date is nullable and optional in the input).
PlanDates == {Some(StartNow + 2 * MinutesPerDay),
              Some(StartNow + 2 * MinutesPerDay + 1200),
              Some(StartNow - MinutesPerDay)}

PlanSchedules ==
    {Row(1, st, T1000, days, TRUE, FALSE, Null) : st \in PlanStarts, days \in PlanDays}
       \cup {Row(1, st, T1000, days, TRUE, TRUE, date) :
                st \in PlanStarts, days \in {<<>>, EveryDay},
                date \in PlanDates \cup {Null}}

PlanClocks == {StartNow + k * PlanStep : k \in 0..PlanSteps}

\* A run makes one call, and may repeat it with the same schedule.
MayCalculate(schedule) ==
    \/ lastOp = NoOp
    \/ /\ lastOp.op = "calculateNextExecution"
       /\ ~lastOp.again
       /\ lastOp.sched = Some(schedule)

\* What the call returns and leaves in lastOp.
Calculated(schedule) ==
    [NoOp EXCEPT !.op = "calculateNextExecution", !.id = schedule.id,
                 !.success = TRUE, !.via = "rpc", !.at = now,
                 !.found = TRUE, !.sched = Some(schedule),
                 !.again = (lastOp # NoOp),
                 !.result = CalculateNextExecution(schedule, now, hostOffset)]

\* The mutant of the call below: it also creates the start timer for the
\* instant it returns, as scheduleStream would.
CalculateNextArming(schedule) ==
    /\ AllIdle
    /\ MayCalculate(schedule)
    /\ lastOp' = Calculated(schedule)
    /\ timers' = IF Calculated(schedule).result = Null THEN timers
                 ELSE timers \cup {[h |-> NewHandle(UsedHandles, schedule.id, "start"),
                                    id |-> schedule.id, kind |-> "start",
                                    at |-> Val(Calculated(schedule).result),
                                    cycle |-> Val(Calculated(schedule).result)]}
    /\ UNCHANGED <<mockStreamDatabase, scenesTable, now, hostOffset, schedulesTable, obsInstancesTable,
                   streamEventsTable, notificationsTable, activeSchedules,
                   calls, fireLog, owedStops, directCalls, failures, inits, rpcCalls>>

\* calculateNextExecution(schedule): it has no await before it returns, and
\* reads the clock and the schedule only.
CalculateNext(schedule) ==
    /\ AllIdle
    /\ MayCalculate(schedule)
    /\ lastOp' = Calculated(schedule)
    /\ UNCHANGED <<mockStreamDatabase, scenesTable, now, hostOffset, schedulesTable, obsInstancesTable,
                   streamEventsTable, notificationsTable, timers, activeSchedules,
                   calls, fireLog, owedStops, directCalls, failures, inits, rpcCalls>>

(***************************************************************************)
(* validateScheduleConflicts called over RPC with a list of the caller's.  *)
(* A conflict message is the kind of conflict and the schedules it names,  *)
(* in the order it names them; a schedule is named by its id.              *)
(***************************************************************************)
\* The UTF-16 code unit of a character of a time string.
CodeUnit(c) == IF c = ":" THEN 58 ELSE 48 + DigitValue(c)

\* Its place in the collation order of localeCompare: punctuation sorts
\* before digits.
CollationKey(c) == IF c = ":" THEN 0 ELSE 1 + DigitValue(c)

CodeUnits(s) == [i \in 1..Len(s) |-> CodeUnit(s[i])]

CollationKeys(s) == [i \in 1..Len(s) |-> CollationKey(s[i])]

\* Lexicographic comparison of two sequences of numbers: -1, 0 or 1.
RECURSIVE LexCompare(_, _)
LexCompare(a, b) ==
    IF Len(a) = 0 /\ Len(b) = 0 THEN 0
    ELSE IF Len(a) = 0 THEN -1
    ELSE IF Len(b) = 0 THEN 1
    ELSE IF Head(a) < Head(b) THEN -1
    ELSE IF Head(a) > Head(b) THEN 1
    ELSE LexCompare(Tail(a), Tail(b))

\* The mutant of the comparison below: a <= b.
StringLeq(a, b) == LexCompare(CodeUnits(a), CodeUnits(b)) <= 0

\* a >= b on two strings: by code units.
StringGeq(a, b) == LexCompare(CodeUnits(a), CodeUnits(b)) >= 0

\* a.localeCompare(b)
LocaleCompare(a, b) == LexCompare(CollationKeys(a), CollationKeys(b))

\* The comparator of the sort: by OBS instance, then by start_time.
CompareSchedules(a, b) ==
    IF a.obs_instance_id # b.obs_instance_id
    THEN a.obs_instance_id - b.obs_instance_id
    ELSE LocaleCompare(a.start_time, b.start_time)

\* Array.prototype.sort is stable: x goes after the elements not greater.
InsertSorted(sorted, x) ==
    LET k == Cardinality({i \in 1..Len(sorted) : CompareSchedules(sorted[i], x) <= 0})
    IN  SubSeq(sorted, 1, k) \o <<x>> \o SubSeq(sorted, k + 1, Len(sorted))

RECURSIVE SortInto(_, _)
SortInto(sorted, rest) ==
    IF Len(rest) = 0 THEN sorted
    ELSE SortInto(InsertSorted(sorted, Head(rest)), Tail(rest))

SortedSchedules(schedules) == SortInto(<<>>, schedules)

\* parseTimeString: minutes since midnight.
ParseTimeString(timeStr) == HoursMinutes(timeStr)[1] * 60 + HoursMinutes(timeStr)[2]

\* The mutant of the adjustment below: an overnight end is left as it is.
EndNotAdjusted(start, end) == end

\* if (currentEnd <= currentStart) currentEndAdjusted += 24 * 60
EndAdjusted(start, end) == IF end <= start THEN end + MinutesPerDay ELSE end

\* The mutant of the test below looks at the first day of currentDays only.
FirstDayOverlaps(currentDays, otherDays) ==
    Len(currentDays) > 0 /\ Includes(otherDays, currentDays[1])

\* currentDays.some(day => otherDays.includes(day))
HasOverlappingDays(currentDays, otherDays) ==
    \E i \in 1..Len(currentDays) : Includes(otherDays, currentDays[i])

Conflict(kind, names) == [kind |-> kind, names |-> names]

\* The mutant of the comparison below: a break of minBreakTime is too short.
BreakAtMostMin(gap) == gap <= MinBreakTime

\* (otherStart - currentEndAdjusted) < minBreakTime
BreakTooShort(gap) == gap < MinBreakTime

\* The time-range check of one schedule.
InvalidRange(currentSchedule) ==
    IF StringGeq(currentSchedule.start_time, currentSchedule.end_time)
    THEN <<Conflict("invalid time range", <<currentSchedule.id>>)>>
    ELSE <<>>

\* The body of the inner loop for one pair.
PairConflicts(currentSchedule, otherSchedule) ==
    LET currentStart == ParseTimeString(currentSchedule.start_time)
        currentEnd == ParseTimeString(currentSchedule.end_time)
        otherStart == ParseTimeString(otherSchedule.start_time)
        otherEnd == ParseTimeString(otherSchedule.end_time)
        currentEndAdjusted == EndAdjusted(currentStart, currentEnd)
        otherEndAdjusted == EndAdjusted(otherStart, otherEnd)
        overlaps == currentStart < otherEndAdjusted /\ currentEndAdjusted > otherStart
        names == <<currentSchedule.id, otherSchedule.id>>
        reversed == <<otherSchedule.id, currentSchedule.id>>
    IN  IF currentSchedule.obs_instance_id # otherSchedule.obs_instance_id THEN <<>>
        ELSE IF ~HasOverlappingDays(currentSchedule.days_of_week,
                                    otherSchedule.days_of_week) THEN <<>>
        ELSE (IF overlaps THEN <<Conflict("overlapping times", names)>> ELSE <<>>)
             \o (IF /\ currentEndAdjusted <= otherStart
                    /\ BreakTooShort(otherStart - currentEndAdjusted)
                 THEN <<Conflict("insufficient break time", names)>> ELSE <<>>)
             \o (IF /\ otherEndAdjusted <= currentStart
                    /\ BreakTooShort(currentStart - otherEndAdjusted)
                 THEN <<Conflict("insufficient break time", reversed)>> ELSE <<>>)

RECURSIVE InnerLoop(_, _, _)
InnerLoop(sorted, i, j) ==
    IF j > Len(sorted) THEN <<>>
    ELSE PairConflicts(sorted[i], sorted[j]) \o InnerLoop(sorted, i, j + 1)

RECURSIVE OuterLoop(_, _)
OuterLoop(sorted, i) ==
    IF i > Len(sorted) THEN <<>>
    ELSE InvalidRange(sorted[i]) \o InnerLoop(sorted, i, i + 1) \o OuterLoop(sorted, i + 1)

ValidateScheduleConflicts(schedules) == OuterLoop(SortedSchedules(schedules), 1)

T1100 == <<"1", "1", ":", "0", "0">>
T1102 == <<"1", "1", ":", "0", "2">>
T2330 == <<"2", "3", ":", "3", "0">>
T2350 == <<"2", "3", ":", "5", "0">>
T900 == <<"9", ":", "0", "0">>
T1104 == <<"1", "1", ":", "0", "4">>
T1105 == <<"1", "1", ":", "0", "5">>

OnInstance(row, inst) == [row EXCEPT !.obs_instance_id = inst]

\* The schedules the lists are made of.
ValidatorRows ==
    {Row(1, T0900, T1100, <<1, 2, 3>>, TRUE, FALSE, Null),
     Row(2, T1000, T1200, <<3, 4>>, TRUE, FALSE, Null),
     Row(3, T1500, T1400, <<1>>, TRUE, FALSE, Null),
     OnInstance(Row(4, T0900, T1100, <<1, 2, 3>>, TRUE, FALSE, Null), 2),
     Row(5, T1000, T1200, <<5, 6>>, TRUE, FALSE, Null),
     Row(6, T1100, T1100, <<1>>, TRUE, FALSE, Null),
     Row(7, T2300, T0100, <<1>>, TRUE, FALSE, Null),
     Row(8, T1102, T1200, <<1>>, TRUE, FALSE, Null),
     Row(9, T900, T1000, <<6>>, TRUE, FALSE, Null),
     Row(10, T2330, T2350, <<1>>, TRUE, FALSE, Null),
     Row(11, T1000, T900, <<6>>, TRUE, FALSE, Null),
     Row(12, T1104, T1200, <<2>>, TRUE, FALSE, Null),
     Row(13, T1105, T1200, <<3>>, TRUE, FALSE, Null),
     Row(14, <<"0", "0", ":", "3", "0">>, <<"0", "2", ":", "0", "0">>, <<2>>,
         TRUE, FALSE, Null),
     Row(15, T0100, T2300, <<1>>, TRUE, FALSE, Null)}

\* The lists of at most MaxList different schedules, in every order.
ValidatorLists ==
    {list \in UNION {[1..n -> ValidatorRows] : n \in 0..MaxList} :
        \A i, j \in 1..Len(list) : list[i] = list[j] => i = j}

\* validateScheduleConflicts(schedules): it has no await before it returns.
\* It reads its argument only, so one call is made per run.
ValidateConflicts(schedules) ==
    /\ AllIdle
    /\ lastOp = NoOp
    /\ lastOp' = [NoOp EXCEPT !.op = "validateScheduleConflicts", !.success = TRUE,
                              !.via = "rpc", !.at = now, !.found = TRUE,
                              !.schedules = schedules,
                              !.result = ValidateScheduleConflicts(schedules)]
    /\ UNCHANGED <<mockStreamDatabase, scenesTable, now, hostOffset, schedulesTable, obsInstancesTable,
                   streamEventsTable, notificationsTable, timers, activeSchedules,
                   calls, fireLog, owedStops, directCalls, failures, inits, rpcCalls>>

(***************************************************************************)
(* getNextScheduledEvent called over RPC.                                  *)
(***************************************************************************)
\* The mutant of the comparison below: the later start is kept.
LaterThan(a, b) == a > b

\* nextStart < nextEvent.scheduled_time
SoonerThan(a, b) == a < b

\* schedules inner join obs_instances where schedules.is_active = true
SelectActiveJoined(table) ==
    {i \in SelectActive(table) : table[i].obs_instance_id \in DOMAIN obsInstancesTable}

\* One turn of the loop: nextEvent after the row of schedule.
NextEventAfter(nextEvent, schedule, clock, tz) ==
    LET nextStart == CalculateNextExecution(schedule, clock, tz)
    IN  IF /\ nextStart # Null
           /\ Val(nextStart) > clock
           /\ (nextEvent = Null \/ SoonerThan(Val(nextStart), Val(nextEvent).scheduled_time))
        THEN Some([schedule_id |-> schedule.id, event_type |-> "start",
                   scheduled_time |-> Val(nextStart),
                   obs_instance_name |-> obsInstancesTable[schedule.obs_instance_id].name])
        ELSE nextEvent

RECURSIVE NextEventLoop(_, _, _, _)
NextEventLoop(rows, nextEvent, clock, tz) ==
    IF rows = <<>> THEN nextEvent
    ELSE NextEventLoop(Tail(rows), NextEventAfter(nextEvent, Head(rows), clock, tz),
                       clock, tz)

\* getNextScheduledEvent(): the select returns the rows in some order; the
\* call reads the tables and the clock only, so one call is made per run.
GetNextScheduledEvent ==
    /\ AllIdle
    /\ lastOp = NoOp
    /\ \E o \in Orders(SelectActiveJoined(schedulesTable)) :
          lastOp' = [NoOp EXCEPT !.op = "getNextScheduledEvent", !.success = TRUE,
                                 !.via = "rpc", !.at = now, !.found = TRUE,
                                 !.order = o,
                                 !.result = NextEventLoop([i \in DOMAIN o |-> schedulesTable[o[i]]],
                                                          Null, now, hostOffset)]
    /\ UNCHANGED <<mockStreamDatabase, scenesTable, now, hostOffset, schedulesTable, obsInstancesTable,
                   streamEventsTable, notificationsTable, timers, activeSchedules,
                   calls, fireLog, owedStops, directCalls, failures, inits, rpcCalls>>

\* The schedules tables getNextScheduledEvent is called on: none, inactive
\* only, an inactive schedule sooner than the active ones, two schedules of
\* two instances with the same start, a one-time schedule with a recurring
\* one, and an active schedule with no weekday.
Inactive(row) == [row EXCEPT !.is_active = FALSE]

NextEventTables ==
    {<<>>,
     <<Inactive(Row(1, T0600, T0700, EveryDay, TRUE, FALSE, Null))>>,
     <<Row(1, T0900, T1000, <<1, 3, 5>>, TRUE, FALSE, Null),
       OnInstance(Row(2, T2359, T0100, <<0, 6>>, TRUE, FALSE, Null), 2),
       Inactive(Row(3, T0010, T0100, EveryDay, TRUE, FALSE, Null))>>,
     <<OnInstance(Row(1, T0900, T1000, <<2, 4>>, TRUE, FALSE, Null), 2),
       Row(2, T0900, T1100, EveryDay, TRUE, FALSE, Null)>>,
     <<Row(1, T1200, T1300, <<>>, TRUE, TRUE, Some(StartNow + 2 * MinutesPerDay)),
       OnInstance(Row(2, T0600, T0700, <<4>>, TRUE, FALSE, Null), 2)>>,
     <<Row(1, T0600, T0700, <<>>, TRUE, FALSE, Null),
       Inactive(Row(2, T0600, T0700, EveryDay, TRUE, FALSE, Null))>>}

(***************************************************************************)
(* Writes of the schedules table: createSchedule (handlers/schedules.ts),  *)
(* and the update that clears is_active of a row.  Neither calls the       *)
(* scheduler.                                                              *)
(***************************************************************************)
\* The inputs createSchedule is called with: a schedule of every day, for
\* the instance 1 and for an instance that does not exist, and a schedule
\* with no weekday.
CreateInputs ==
    {[obs_instance_id |-> 1, start_time |-> T0600, end_time |-> T0700,
      days_of_week |-> EveryDay, is_one_time |-> FALSE, execution_date |-> Null],
     [obs_instance_id |-> MissingId, start_time |-> T0600, end_time |-> T0700,
      days_of_week |-> EveryDay, is_one_time |-> FALSE, execution_date |-> Null],
     [obs_instance_id |-> 1, start_time |-> T0600, end_time |-> T0700,
      days_of_week |-> <<>>, is_one_time |-> FALSE, execution_date |-> Null]}

\* The row the insert returns: the next serial id, is_active by default true.
InsertedSchedule(table, input) ==
    OnInstance(Row(Len(table) + 1, input.start_time, input.end_time,
                   input.days_of_week, TRUE, input.is_one_time, input.execution_date),
               input.obs_instance_id)

\* createSchedule(input): it throws when the instance does not exist, else
\* it inserts the row and returns it.
CreateSchedule(input) ==
    /\ AllIdle
    /\ Len(schedulesTable) < MaxSchedules
    /\ IF input.obs_instance_id \in DOMAIN obsInstancesTable
       THEN /\ schedulesTable' = Append(schedulesTable, InsertedSchedule(schedulesTable, input))
            /\ lastOp' = [NoOp EXCEPT !.op = "createSchedule", !.via = "rpc", !.at = now,
                                      !.id = Len(schedulesTable) + 1, !.success = TRUE,
                                      !.found = TRUE,
                                      !.sched = Some(InsertedSchedule(schedulesTable, input))]
       ELSE /\ schedulesTable' = schedulesTable
            /\ lastOp' = [NoOp EXCEPT !.op = "createSchedule", !.via = "rpc", !.at = now,
                                      !.error = "threw", !.failed = TRUE]
    /\ UNCHANGED <<mockStreamDatabase, scenesTable, now, hostOffset, obsInstancesTable,
                   streamEventsTable, notificationsTable, timers, activeSchedules,
                   calls, fireLog, owedStops, directCalls, failures, inits, rpcCalls>>

\* update schedules set is_active = false where id = ...: the row is
\* deactivated in the store.
DeactivateSchedule(id) ==
    /\ AllIdle
    /\ id \in DOMAIN schedulesTable
    /\ schedulesTable[id].is_active
    /\ schedulesTable' = [schedulesTable EXCEPT ![id] = Inactive(@)]
    /\ lastOp' = NoOp
    /\ UNCHANGED <<mockStreamDatabase, scenesTable, now, hostOffset, obsInstancesTable,
                   streamEventsTable, notificationsTable, timers, activeSchedules,
                   calls, fireLog, owedStops, directCalls, failures, inits, rpcCalls>>

(***************************************************************************)
(* startStream, stopStream and executeControlCommand 'switch_scene'        *)
(* (handlers/streaming_control.ts), each call running to completion.       *)
(***************************************************************************)
\* The response {success, message} and the call it answers, left in lastOp.
Responded(op, input, success, message) ==
    [NoOp EXCEPT !.op = op, !.id = input.obs_instance_id, !.via = "rpc",
                 !.at = now, !.input = Some(input), !.success = success,
                 !.message = message]

\* The mutant of the event type below: every start is logged as manual.
StartEventTypeManual(manual) == "manual_start"

\* event_type: manual ? 'manual_start' : 'stream_start'
StartEventType(manual) == IF manual THEN "manual_start" ELSE "stream_start"

\* The mutant of the event type below: the stop is logged with the event
\* type of a start.
StopEventTypeOfStart(manual) == IF manual THEN "manual_start" ELSE "stream_start"

\* event_type: manual ? 'manual_stop' : 'stream_stop'
StopEventType(manual) == IF manual THEN "manual_stop" ELSE "stream_stop"

\* The row startStream and stopStream insert into stream_events.
ManualEvent(obsInstanceId, eventType) ==
    [obs_instance_id |-> obsInstanceId, schedule_id |-> Null, event_type |-> eventType]

StartStream(obsInstanceId, manual) ==
    LET input == [obs_instance_id |-> obsInstanceId, manual |-> manual]
    IN  /\ AllIdle
        /\ Len(streamEventsTable) < MaxEvents
        /\ IF obsInstanceId \notin DOMAIN obsInstancesTable
           THEN /\ lastOp' = Responded("startStream", input, FALSE, "OBS instance not found")
                /\ UNCHANGED <<mockStreamDatabase, obsInstancesTable, streamEventsTable>>
           ELSE IF obsInstancesTable[obsInstanceId].is_streaming
           THEN /\ lastOp' = Responded("startStream", input, FALSE, "Stream is already active")
                /\ UNCHANGED <<mockStreamDatabase, obsInstancesTable, streamEventsTable>>
           ELSE /\ obsInstancesTable' =
                      [obsInstancesTable EXCEPT
                          ![obsInstanceId] = [@ EXCEPT !.is_streaming = TRUE,
                                                       !.status = "connected"]]
                /\ streamEventsTable' =
                      Append(streamEventsTable,
                             ManualEvent(obsInstanceId, StartEventType(manual)))
                /\ lastOp' = Responded("startStream", input, TRUE, "Stream started successfully")
        /\ UNCHANGED <<mockStreamDatabase, scenesTable, now, hostOffset, schedulesTable,
                       notificationsTable, timers, activeSchedules,
                       calls, fireLog, owedStops, directCalls, failures, inits, rpcCalls>>

StopStream(obsInstanceId, manual) ==
    LET input == [obs_instance_id |-> obsInstanceId, manual |-> manual]
    IN  /\ AllIdle
        /\ Len(streamEventsTable) < MaxEvents
        /\ IF obsInstanceId \notin DOMAIN obsInstancesTable
           THEN /\ lastOp' = Responded("stopStream", input, FALSE, "OBS instance not found")
                /\ UNCHANGED <<mockStreamDatabase, obsInstancesTable, streamEventsTable>>
           ELSE IF ~obsInstancesTable[obsInstanceId].is_streaming
           THEN /\ lastOp' = Responded("stopStream", input, FALSE, "Stream is not active")
                /\ UNCHANGED <<mockStreamDatabase, obsInstancesTable, streamEventsTable>>
           ELSE /\ obsInstancesTable' =
                      [obsInstancesTable EXCEPT
                          ![obsInstanceId] = [@ EXCEPT !.is_streaming = FALSE]]
                /\ streamEventsTable' =
                      Append(streamEventsTable,
                             ManualEvent(obsInstanceId, StopEventType(manual)))
                /\ lastOp' = Responded("stopStream", input, TRUE, "Stream stopped successfully")
        /\ UNCHANGED <<mockStreamDatabase, scenesTable, now, hostOffset, schedulesTable,
                       notificationsTable, timers, activeSchedules,
                       calls, fireLog, owedStops, directCalls, failures, inits, rpcCalls>>

(***************************************************************************)
(* startStream when calls interleave: the call suspends at the select, at  *)
(* the update and at the insert, and other calls run in between.           *)
(***************************************************************************)
\* startStream(obsInstanceId, manual) is called over RPC and suspends at its
\* select.
StartStreamBegin(obsInstanceId, manual) ==
    /\ HasFreeSlot
    /\ rpcCalls < MaxRpc
    /\ rpcCalls' = rpcCalls + 1
    /\ calls' = [calls EXCEPT ![FreeSlot] =
                    [Idle EXCEPT !.op = "startStream", !.pc = "select",
                                 !.id = obsInstanceId, !.via = "rpc", !.at = now,
                                 !.input = Some([obs_instance_id |-> obsInstanceId,
                                                 manual |-> manual])]]
    /\ lastOp' = NoOp
    /\ UNCHANGED <<mockStreamDatabase, scenesTable, now, hostOffset, schedulesTable, obsInstancesTable,
                   streamEventsTable, notificationsTable, timers, activeSchedules,
                   fireLog, owedStops, directCalls, failures, inits>>

\* The select returns: the call is refused when there is no row or the row
\* is streaming, else it goes on to the update.
StartStreamSelect(c) ==
    LET f == calls[c]
    IN  /\ f.op = "startStream"
        /\ f.pc = "select"
        /\ IF f.id \notin DOMAIN obsInstancesTable
           THEN /\ calls' = [calls EXCEPT ![c] = Idle]
                /\ lastOp' = Responded("startStream", Val(f.input), FALSE,
                                       "OBS instance not found")
           ELSE IF obsInstancesTable[f.id].is_streaming
           THEN /\ calls' = [calls EXCEPT ![c] = Idle]
                /\ lastOp' = Responded("startStream", Val(f.input), FALSE,
                                       "Stream is already active")
           ELSE /\ calls' = [calls EXCEPT ![c] = [f EXCEPT !.pc = "update"]]
                /\ lastOp' = NoOp
        /\ UNCHANGED <<mockStreamDatabase, scenesTable, now, hostOffset, schedulesTable, obsInstancesTable,
                       streamEventsTable, notificationsTable, timers, activeSchedules,
                       fireLog, owedStops, directCalls, failures, inits, rpcCalls>>

\* update obs_instances set is_streaming = true, status = 'connected'
StartStreamUpdate(c) ==
    LET f == calls[c]
    IN  /\ f.op = "startStream"
        /\ f.pc = "update"
        /\ obsInstancesTable' =
              [obsInstancesTable EXCEPT
                  ![f.id] = [@ EXCEPT !.is_streaming = TRUE, !.status = "connected"]]
        /\ calls' = [calls EXCEPT ![c] = [f EXCEPT !.pc = "insert"]]
        /\ lastOp' = NoOp
        /\ UNCHANGED <<mockStreamDatabase, scenesTable, now, hostOffset, schedulesTable,
                       streamEventsTable, notificationsTable, timers, activeSchedules,
                       fireLog, owedStops, directCalls, failures, inits, rpcCalls>>

\* insert into stream_events, and the call returns success.
StartStreamInsert(c) ==
    LET f == calls[c]
    IN  /\ f.op = "startStream"
        /\ f.pc = "insert"
        /\ streamEventsTable' =
              Append(streamEventsTable,
                     ManualEvent(f.id, StartEventType(Val(f.input).manual)))
        /\ calls' = [calls EXCEPT ![c] = Idle]
        /\ lastOp' = Responded("startStream", Val(f.input), TRUE,
                               "Stream started successfully")
        /\ UNCHANGED <<mockStreamDatabase, scenesTable, now, hostOffset, schedulesTable, obsInstancesTable,
                       notificationsTable, timers, activeSchedules,
                       fireLog, owedStops, directCalls, failures, inits, rpcCalls>>

\* A row of table scenes.
Scene(obsInstanceId, name, active) ==
    [obs_instance_id |-> obsInstanceId, name |-> name, is_active |-> active]

\* !input.parameters?.['scene_name']: no parameter, or the empty string.
SceneNameMissing(sceneName) == sceneName = Null \/ Val(sceneName) = ""

\* select from scenes where obs_instance_id = ... and name = ...
ScenesNamed(table, obsInstanceId, name) ==
    {i \in DOMAIN table : table[i].obs_instance_id = obsInstanceId /\ table[i].name = name}

\* The mutant of the update below: it has lost its where clause.
DeactivateEveryScene(table, obsInstanceId) ==
    [i \in DOMAIN table |-> [table[i] EXCEPT !.is_active = FALSE]]

\* update scenes set is_active = false where obs_instance_id = ...
DeactivateScenes(table, obsInstanceId) ==
    [i \in DOMAIN table |->
        IF table[i].obs_instance_id = obsInstanceId
        THEN [table[i] EXCEPT !.is_active = FALSE] ELSE table[i]]

\* update scenes set is_active = true where obs_instance_id = ... and name = ...
ActivateScenes(table, obsInstanceId, name) ==
    [i \in DOMAIN table |->
        IF i \in ScenesNamed(table, obsInstanceId, name)
        THEN [table[i] EXCEPT !.is_active = TRUE] ELSE table[i]]

\* executeControlCommand({obs_instance_id, command: 'switch_scene',
\* parameters: {scene_name}}), sceneName = Null when there is no parameter.
\* The message of success is written without the scene name that ends it.
SwitchScene(obsInstanceId, sceneName) ==
    LET input == [obs_instance_id |-> obsInstanceId, command |-> "switch_scene",
                  scene_name |-> sceneName]
    IN  /\ AllIdle
        /\ IF SceneNameMissing(sceneName)
           THEN /\ lastOp' = Responded("switch_scene", input, FALSE,
                                       "Scene name parameter is required")
                /\ UNCHANGED <<mockStreamDatabase, obsInstancesTable, scenesTable>>
           ELSE IF obsInstanceId \notin DOMAIN obsInstancesTable
           THEN /\ lastOp' = Responded("switch_scene", input, FALSE, "OBS instance not found")
                /\ UNCHANGED <<mockStreamDatabase, obsInstancesTable, scenesTable>>
           ELSE IF ScenesNamed(scenesTable, obsInstanceId, Val(sceneName)) = {}
           THEN /\ lastOp' = Responded("switch_scene", input, FALSE,
                                       "Scene not found for this OBS instance")
                /\ UNCHANGED <<mockStreamDatabase, obsInstancesTable, scenesTable>>
           ELSE /\ scenesTable' = ActivateScenes(DeactivateScenes(scenesTable, obsInstanceId),
                                                 obsInstanceId, Val(sceneName))
                /\ obsInstancesTable' =
                      [obsInstancesTable EXCEPT
                          ![obsInstanceId] = [@ EXCEPT !.current_scene = sceneName]]
                /\ lastOp' = Responded("switch_scene", input, TRUE, "Scene switched to")
        /\ UNCHANGED <<mockStreamDatabase, now, hostOffset, schedulesTable, streamEventsTable,
                       notificationsTable, timers, activeSchedules,
                       calls, fireLog, owedStops, directCalls, failures, inits, rpcCalls>>

\* The scenes the runs start from: two scenes of one name in the first
\* instance, and the same names in the second.
ControlScenes ==
    <<Scene(1, "Main Scene", TRUE), Scene(1, "Test Scene", FALSE),
      Scene(1, "Test Scene", FALSE), Scene(2, "Main Scene", FALSE),
      Scene(2, "Test Scene", TRUE), Scene(2, "Camera", TRUE)>>

\* The scene_name parameters of the commands.
SceneNames == {Null, Some(""), Some("Main Scene"), Some("Test Scene"),
               Some("Camera"), Some("Non-existent Scene")}

(***************************************************************************)
(* The clock.                                                              *)
(***************************************************************************)
\* The instant time passes to: the next multiple of TickGrain, or the next
\* pending timer when that is due sooner.  A due timer runs before time
\* passes, and a call in flight returns before time passes: its awaits take
\* less than a minute.
NextInstant ==
    LET grid == ((now \div TickGrain) + 1) * TickGrain
        due == {t.at : t \in timers} \cup {grid}
    IN  CHOOSE x \in due : \A y \in due : x <= y

Tick ==
    /\ AllIdle
    /\ \A t \in timers : t.at > now
    /\ NextInstant <= StartNow + Horizon
    /\ now' = NextInstant
    /\ lastOp' = NoOp
    /\ UNCHANGED <<mockStreamDatabase, scenesTable, hostOffset, schedulesTable, obsInstancesTable,
                   streamEventsTable, notificationsTable, timers,
                   activeSchedules, calls, fireLog, owedStops, directCalls, failures, inits, rpcCalls>>

(***************************************************************************)
(* getStreamingStatus (handlers/streaming_control.ts).  The column         *)
(* occurred_at of stream_events is counted in milliseconds since the       *)
(* epoch; the clock of the call is now, in minutes.                        *)
(***************************************************************************)
\* select from stream_events where obs_instance_id = ... and event_type =
\* 'stream_start' order by occurred_at limit 1: the row that sorts first in
\* ascending order of occurred_at, if there is one.
RecentStreamStart(events, obsInstanceId) ==
    LET rows == {k \in DOMAIN events :
                    /\ events[k].obs_instance_id = obsInstanceId
                    /\ events[k].event_type = "stream_start"}
    IN  IF rows = {} THEN Null
        ELSE Some(events[CHOOSE k \in rows :
                            \A j \in rows : events[k].occurred_at <= events[j].occurred_at])

\* stream_duration: null unless the instance is streaming and has such an
\* event, else Math.floor of the seconds since it.
StreamDuration(instance, events, obsInstanceId, clock) ==
    LET recentStreamStart == RecentStreamStart(events, obsInstanceId)
    IN  IF instance.is_streaming /\ recentStreamStart # Null
        THEN Some((clock * 60 * MsPerSecond - Val(recentStreamStart).occurred_at)
                     \div MsPerSecond)
        ELSE Null

\* getStreamingStatus(obsInstanceId): it throws when the instance does not
\* exist.  It reads the tables and the clock only, so one call is made per
\* run.
GetStreamingStatus(obsInstanceId) ==
    LET input == [obs_instance_id |-> obsInstanceId]
    IN  /\ AllIdle
        /\ lastOp = NoOp
        /\ IF obsInstanceId \notin DOMAIN obsInstancesTable
           THEN lastOp' = [Responded("getStreamingStatus", input, FALSE,
                                     "OBS instance not found") EXCEPT !.failed = TRUE]
           ELSE lastOp' =
                   [Responded("getStreamingStatus", input, TRUE, "") EXCEPT
                       !.found = TRUE,
                       !.result =
                          [is_streaming |-> obsInstancesTable[obsInstanceId].is_streaming,
                           current_scene |-> obsInstancesTable[obsInstanceId].current_scene,
                           stream_duration |->
                              StreamDuration(obsInstancesTable[obsInstanceId],
                                             streamEventsTable, obsInstanceId, now)]]
        /\ UNCHANGED <<mockStreamDatabase, scenesTable, now, hostOffset, schedulesTable, obsInstancesTable,
                       streamEventsTable, notificationsTable, timers, activeSchedules,
                       calls, fireLog, owedStops, directCalls, failures, inits, rpcCalls>>

\* The stream_events tables getStreamingStatus is called on, the events in
\* the order of occurred_at: none; one scheduled start 60.5 seconds before
\* boot; two scheduled starts of instance 1 with a stop between them; a
\* manual start only; and scheduled starts of both instances.
StatusEventTables ==
    LET boot == StartNow * 60 * MsPerSecond
        event(i, type, at) == [obs_instance_id |-> i, schedule_id |-> Null,
                               event_type |-> type, occurred_at |-> at]
    IN  {<<>>,
         <<event(1, "stream_start", boot - 60500)>>,
         <<event(1, "stream_start", boot - 7200000),
           event(1, "stream_stop", boot - 3600000),
           event(1, "stream_start", boot - 60500)>>,
         <<event(1, "manual_start", boot - 60500)>>,
         <<event(2, "stream_start", boot - 120000),
           event(1, "stream_start", boot - 60500),
           event(2, "stream_stop", boot - 30000)>>}

(***************************************************************************)
(* updateYouTubeStreamMetadata (handlers/youtube_integration.ts).  A       *)
(* string is the sequence of its characters; the metadata object is the    *)
(* function from the keys it has to their values.                          *)
(***************************************************************************)
\* c.repeat(n)
Repeat(c, n) == [i \in 1..n |-> c]

\* str.includes(sub)
StringIncludes(str, sub) ==
    \E i \in 0..(Len(str) - Len(sub)) : SubSeq(str, i + 1, i + Len(sub)) = sub

\* metadata.title, metadata.description, metadata.tags: undefined when the
\* object has no such key.
Property(metadata, key) ==
    IF key \in DOMAIN metadata THEN Some(metadata[key]) ELSE Null

\* if (metadata.title): the string is there and is not empty.
Truthy(property) == property # Null /\ Len(Val(property)) > 0

\* The mutant of the comparison below: a length at the limit is refused.
ReachesLimit(length, limit) == length >= limit

\* .length > limit
Exceeds(length, limit) == length > limit

\* The checks of the input, in order: the error of the first that fails.
MetadataError(streamKey, metadata) ==
    LET title == Property(metadata, "title")
        description == Property(metadata, "description")
        tags == Property(metadata, "tags")
    IN  IF Len(streamKey) < MinStreamKeyLength
        THEN Some("Invalid stream key format")
        ELSE IF DOMAIN metadata = {}
        THEN Some("No metadata provided for update")
        ELSE IF Truthy(title) /\ Exceeds(Len(Val(title)), MaxTitleLength)
        THEN Some("Stream title exceeds 100 character limit")
        ELSE IF Truthy(description) /\ Exceeds(Len(Val(description)), MaxDescriptionLength)
        THEN Some("Stream description exceeds 5000 character limit")
        ELSE IF tags # Null /\ Exceeds(Len(Val(tags)), MaxTags)
        THEN Some("Too many tags (maximum 30 allowed)")
        ELSE IF tags # Null /\ \E i \in DOMAIN Val(tags) :
                                  Exceeds(Len(Val(tags)[i]), MaxTagLength)
        THEN Some("Tag exceeds 100 character limit")
        ELSE Null

\* The stream data the call starts from: the entry of the key, or a new one
\* titled 'Untitled Stream'.
GetOrCreate(store, streamKey) ==
    IF streamKey \in DOMAIN store THEN store[streamKey]
    ELSE [streamKey |-> streamKey, isLive |-> FALSE, viewerCount |-> 0,
          streamTitle |-> <<"U", "n", "t", "i", "t", "l", "e", "d", " ",
                            "S", "t", "r", "e", "a", "m">>,
          privacyStatus |-> "private", description |-> <<>>, tags |-> <<>>]

\* The stream data with the metadata written into it.
WithMetadata(streamData, metadata) ==
    LET title == Property(metadata, "title")
        description == Property(metadata, "description")
        tags == Property(metadata, "tags")
    IN  [streamData EXCEPT
            !.streamTitle = IF Truthy(title) THEN Val(title) ELSE @,
            !.description = IF Truthy(description) THEN Val(description) ELSE @,
            !.tags = IF tags # Null THEN Val(tags) ELSE @]

\* updateYouTubeStreamMetadata(streamKey, metadata), the call running to
\* completion.  For a key that does not include 'test' the simulated API
\* fails or not (Math.random() < 0.03).
UpdateYouTubeStreamMetadata(streamKey, metadata) ==
    LET error == MetadataError(streamKey, metadata)
        answer(success, message) ==
            [NoOp EXCEPT !.op = "updateYouTubeStreamMetadata", !.via = "rpc",
                         !.at = now, !.success = success, !.error = message,
                         !.input = Some([streamKey |-> streamKey,
                                         metadata |-> metadata])]
    IN  /\ AllIdle
        /\ rpcCalls < MaxRpc
        /\ rpcCalls' = rpcCalls + 1
        /\ \E apiFails \in (IF StringIncludes(streamKey, <<"t", "e", "s", "t">>)
                             THEN {FALSE} ELSE BOOLEAN) :
              IF error # Null
              THEN /\ lastOp' = answer(FALSE, Val(error))
                   /\ mockStreamDatabase' = mockStreamDatabase
              ELSE IF apiFails
              THEN /\ lastOp' = answer(FALSE, "YouTube API quota exceeded")
                   /\ mockStreamDatabase' = mockStreamDatabase
              ELSE /\ lastOp' = answer(TRUE, "")
                   /\ mockStreamDatabase' =
                         MapSet(mockStreamDatabase, streamKey,
                                WithMetadata(GetOrCreate(mockStreamDatabase, streamKey),
                                             metadata))
        /\ UNCHANGED <<scenesTable, now, hostOffset, schedulesTable, obsInstancesTable,
                       streamEventsTable, notificationsTable, timers, activeSchedules,
                       calls, fireLog, owedStops, directCalls, failures, inits>>

\* The stream keys of the calls: none, 'test-key9', 'test-key10' and
\* 'live-key-01'.
StreamKeys ==
    {<<>>,
     <<"t", "e", "s", "t", "-", "k", "e", "y", "9">>,
     <<"t", "e", "s", "t", "-", "k", "e", "y", "1", "0">>,
     <<"l", "i", "v", "e", "-", "k", "e", "y", "-", "0", "1">>}

\* The metadata of the calls: none; each property alone at its limit and
\* one over it; 30 and 31 tags; an empty title with no tags; everything at
\* its limit.
MetadataInputs ==
    LET tagList(n) == [i \in 1..n |-> Repeat("t", i)]
    IN  {<<>>,
         [title |-> Repeat("a", MaxTitleLength)],
         [title |-> Repeat("a", MaxTitleLength + 1)],
         [description |-> Repeat("a", MaxDescriptionLength)],
         [description |-> Repeat("a", MaxDescriptionLength + 1)],
         [tags |-> tagList(MaxTags)],
         [tags |-> tagList(MaxTags + 1)],
         [tags |-> <<Repeat("a", MaxTagLength)>>],
         [tags |-> <<Repeat("a", MaxTagLength + 1)>>],
         [title |-> <<>>, tags |-> <<>>],
         [title |-> Repeat("b", MaxTitleLength),
          description |-> Repeat("b", MaxDescriptionLength),
          tags |-> tagList(MaxTags)]}

(***************************************************************************)
(* The specifications.                                                     *)
(***************************************************************************)
\* A row of obs_instances as it is inserted: status 'disconnected', no
\* current scene, not streaming.
ObsInstance(name) ==
    [name |-> name, status |-> "disconnected", current_scene |-> Null,
     is_streaming |-> FALSE]

\* The state at module load: no timer, no entry of activeSchedules.
BootWith(clocks, tables, offsets, instances, scenes) ==
    /\ now \in clocks
    /\ hostOffset \in offsets
    /\ schedulesTable \in tables
    /\ obsInstancesTable = instances
    /\ scenesTable = scenes
    /\ streamEventsTable = <<>>
    /\ notificationsTable = <<>>
    /\ mockStreamDatabase = MapWithout(<<>>, {})
    /\ timers = {}
    /\ activeSchedules = MapWithout(<<>>, {})
    /\ calls = [c \in CallIds |-> Idle]
    /\ fireLog = <<>>
    /\ owedStops = {}
    /\ directCalls = 0
    /\ failures = 0
    /\ inits = 0
    /\ rpcCalls = 0
    /\ lastOp = NoOp

BootAt(clocks, tables, offsets) ==
    BootWith(clocks, tables, offsets, <<ObsInstance("OBS 1")>>, <<>>)

Boot(tables, offsets) == BootAt({StartNow}, tables, offsets)

Init == Boot(ScheduleTables, HostOffsets)

InitAsync == Boot({OvernightAndOneTime}, {0})

\* The calls of the scheduler and the steps of the calls in flight.
EngineStep(serial) ==
    \/ Tick
    \/ \E id \in DOMAIN schedulesTable \cup {MissingId} : UnscheduleStream(id, serial)
    \/ \E id \in DOMAIN schedulesTable : ScheduleStream(id, serial)
    \/ InitializeScheduler(serial)
    \/ \E t \in timers : FireTimer(t, serial)
    \/ \E c \in CallIds :
          \/ CalcStep(c)
          \/ ArmStep(c)
          \/ InitSelect(c)
          \/ InitLoop(c)
          \/ FireSelect(c)
          \/ FireUpdate(c)
          \/ FireInsertEvent(c)
          \/ FireInsertNotification(c)

\* executeScheduledStart and executeScheduledStop called over RPC.
DirectStep(serial) ==
    \E id \in DOMAIN schedulesTable \cup {MissingId} :
       \E op \in {"executeScheduledStart", "executeScheduledStop"} :
          ExecuteDirect(op, id, serial)

\* Every call runs to completion before the next call or timer callback begins.
Next == EngineStep(TRUE) \/ DirectStep(TRUE)

\* Calls and timer callbacks interleave at their awaits.
NextAsync == EngineStep(FALSE)

\* Calls run to completion, and a database call may reject.
NextFaulty == EngineStep(TRUE) \/ \E c \in CallIds : DbFailure(c)

Spec == Init /\ [][Next]_vars

SpecAsync == InitAsync /\ [][NextAsync]_vars

SpecFaulty == Init /\ [][NextFaulty]_vars

\* The planner alone, called at any clock of PlanClocks.
InitPlanner == BootAt(PlanClocks, {OvernightAndOneTime}, HostOffsets)

NextPlanner == \E schedule \in PlanSchedules : CalculateNext(schedule)

SpecPlanner == InitPlanner /\ [][NextPlanner]_vars

\* The scheduler, every call running to completion, with the writes of the
\* schedules table.
InitStore == Boot({OvernightAndOneTime}, {0})

StoreStep ==
    \/ \E input \in CreateInputs : CreateSchedule(input)
    \/ \E id \in DOMAIN schedulesTable : DeactivateSchedule(id)

NextStore == EngineStep(TRUE) \/ StoreStep

SpecStore == InitStore /\ [][NextStore]_vars

\* The streaming controls: two instances, the second one connected and
\* showing a scene, and the instance id 999 no row has.
ControlInstances ==
    <<ObsInstance("OBS 1"),
      [ObsInstance("OBS 2") EXCEPT !.status = "connected",
                                   !.current_scene = Some("Camera")]>>

InitControl == BootWith({StartNow}, {<<>>}, {0}, ControlInstances, ControlScenes)

NextControl ==
    \/ \E i \in DOMAIN obsInstancesTable \cup {MissingId} :
          \E manual \in BOOLEAN : StartStream(i, manual)
    \/ \E i \in DOMAIN obsInstancesTable \cup {MissingId} :
          \E manual \in BOOLEAN : StopStream(i, manual)
    \/ \E i \in DOMAIN obsInstancesTable \cup {MissingId} :
          \E sceneName \in SceneNames : SwitchScene(i, sceneName)

SpecControl == InitControl /\ [][NextControl]_vars

\* startStream calls that interleave at their awaits.
NextStartRace ==
    \/ \E i \in DOMAIN obsInstancesTable \cup {MissingId} :
          \E manual \in BOOLEAN : StartStreamBegin(i, manual)
    \/ \E c \in CallIds :
          \/ StartStreamSelect(c)
          \/ StartStreamUpdate(c)
          \/ StartStreamInsert(c)

SpecStartRace == InitControl /\ [][NextStartRace]_vars

\* getStreamingStatus alone, called at boot or within the two minutes after
\* it, on two instances of which any may be streaming.
InitStatus ==
    /\ now \in {StartNow, StartNow + 1, StartNow + 2}
    /\ hostOffset = 0
    /\ schedulesTable = <<>>
    /\ obsInstancesTable \in
          {<<[ObsInstance("OBS 1") EXCEPT !.is_streaming = a],
             [ObsInstance("OBS 2") EXCEPT !.is_streaming = b]>> : a, b \in BOOLEAN}
    /\ scenesTable = <<>>
    /\ streamEventsTable \in StatusEventTables
    /\ notificationsTable = <<>>
    /\ mockStreamDatabase = MapWithout(<<>>, {})
    /\ timers = {}
    /\ activeSchedules = MapWithout(<<>>, {})
    /\ calls = [c \in CallIds |-> Idle]
    /\ fireLog = <<>>
    /\ owedStops = {}
    /\ directCalls = 0
    /\ failures = 0
    /\ inits = 0
    /\ rpcCalls = 0
    /\ lastOp = NoOp

NextStatus ==
    \E i \in DOMAIN obsInstancesTable \cup {MissingId} : GetStreamingStatus(i)

SpecStatus == InitStatus /\ [][NextStatus]_vars

\* updateYouTubeStreamMetadata alone, from an empty mock store.
NextYouTube ==
    \E streamKey \in StreamKeys :
       \E metadata \in MetadataInputs : UpdateYouTubeStreamMetadata(streamKey, metadata)

SpecYouTube == InitControl /\ [][NextYouTube]_vars

\* unscheduleStream called at any await of a timer callback in flight, while
\* scheduleStream is called only when no call is in flight.
InitUnarm == Boot({OvernightAndOneTime}, {0})

NextUnarm ==
    \/ Tick
    \/ \E id \in DOMAIN schedulesTable : ScheduleStream(id, TRUE)
    \/ \E id \in DOMAIN schedulesTable : UnscheduleStream(id, FALSE)
    \/ \E t \in timers : FireTimer(t, FALSE)
    \/ \E c \in CallIds :
          \/ CalcStep(c)
          \/ ArmStep(c)
          \/ FireSelect(c)
          \/ FireUpdate(c)
          \/ FireInsertEvent(c)
          \/ FireInsertNotification(c)

SpecUnarm == InitUnarm /\ [][NextUnarm]_vars

\* getNextScheduledEvent alone, called at any clock of PlanClocks.
TwoInstances == <<ObsInstance("OBS 1"), ObsInstance("OBS 2")>>

InitNextEvent == BootWith(PlanClocks, NextEventTables, HostOffsets, TwoInstances, <<>>)

NextNextEvent == GetNextScheduledEvent

SpecNextEvent == InitNextEvent /\ [][NextNextEvent]_vars

\* The validator alone.
InitValidator == Boot({OvernightAndOneTime}, {0})

NextValidator == \E schedules \in ValidatorLists : ValidateConflicts(schedules)

SpecValidator == InitValidator /\ [][NextValidator]_vars

(***************************************************************************)
(* The vocabulary of the properties.                                       *)
(***************************************************************************)
ScheduleIds == DOMAIN schedulesTable \cup {MissingId}

\* The pending timer t is one its id's activeSchedules entry refers to.
Referenced(t) ==
    /\ t.id \in DOMAIN activeSchedules
    /\ t.h \in Handles(activeSchedules[t.id])

\* The schedule could be armed at this instant.
HasNextExecution(id) ==
    CalculateNextExecution(schedulesTable[id], now, hostOffset) # Null

\* The id has one entry of a start and a stop timer, both pending, and no
\* other pending timer.
OneArmedPair(id) ==
    /\ id \in DOMAIN activeSchedules
    /\ Len(activeSchedules[id]) = 2
    /\ Cardinality(PendingKind(id, "start")) = 1
    /\ Cardinality(PendingKind(id, "stop")) = 1
    /\ \A t \in PendingOf(id) : Referenced(t)

Fires(kind, id) ==
    {i \in DOMAIN fireLog : fireLog[i].kind = kind /\ fireLog[i].id = id}

\* A fire callback that found its schedule has just returned.
FireReturned(op) ==
    /\ lastOp.op = op
    /\ lastOp.found
    /\ ~lastOp.failed

\* What executeScheduledStart has written when it returns.
StartWritten ==
    /\ lastOp.wroteEvents = 1
    /\ lastOp.wroteNotifs = 1
    /\ Len(streamEventsTable) > 0
    /\ streamEventsTable[Len(streamEventsTable)] =
          [obs_instance_id |-> schedulesTable[lastOp.id].obs_instance_id,
           schedule_id |-> lastOp.id, event_type |-> "stream_start"]
    /\ Len(notificationsTable) > 0
    /\ notificationsTable[Len(notificationsTable)] =
          [schedule_id |-> lastOp.id, notification_type |-> "stream_start"]
    /\ obsInstancesTable[schedulesTable[lastOp.id].obs_instance_id].is_streaming

\* The id is armed for a cycle after the instant that fired.
NextCycleArmed ==
    /\ OneArmedPair(lastOp.id)
    /\ \A t \in PendingKind(lastOp.id, "start") : t.at > lastOp.at

InitReturned ==
    /\ lastOp.op = "initializeScheduler"
    /\ lastOp.success

(***************************************************************************)
(* C1.  While scheduleStream calls for one schedule id interleave at their *)
(* awaits, the id never has more than one live start/stop timer pair:      *)
(* every pending timer of the id is one the id's activeSchedules entry     *)
(* refers to, so no call orphans the timers of another.  Stated of         *)
(* SpecAsync, where it is violated: two calls both run unscheduleStream    *)
(* before either creates its timers, and the second activeSchedules.set    *)
(* overwrites the entry of the first, whose timers stay pending.           *)
(***************************************************************************)
C1_NoOrphanedTimerWhenArmsInterleave ==
    \A id \in ScheduleIds :
       /\ Cardinality(PendingOf(id)) <= 2
       /\ \A t \in PendingOf(id) : Referenced(t)

(***************************************************************************)
(* C2.  Once a start timer has fired, the stop timer armed with it stays   *)
(* pending until it fires at its paired instant, unless the id is          *)
(* unscheduled or armed anew from outside in between; the re-arm of        *)
(* executeScheduledStart does not cancel it.  Stated of Spec, where it is  *)
(* violated: the re-arm runs unscheduleStream, which clears the stop timer *)
(* of the running cycle.                                                   *)
(***************************************************************************)
C2_PairedStopStaysPendingAfterStart ==
    \A o \in owedStops :
       \E t \in timers : t.kind = "stop" /\ t.id = o.id /\ t.at = o.at

(***************************************************************************)
(* C3, as the specification states it.  When executeScheduledStart returns *)
(* for an existing recurring schedule, one stream_start event and one      *)
(* stream_start notification were written, the instance is streaming, and  *)
(* the id has one armed pair whose start is after the instant that fired.  *)
(* Violated for a recurring schedule with days_of_week = [].               *)
(***************************************************************************)
C3_StartOfAnyRecurringArmsNextCycle ==
    (FireReturned("executeScheduledStart") /\ ~Val(lastOp.sched).is_one_time)
       => (StartWritten /\ NextCycleArmed)

(***************************************************************************)
(* C3, amended.  When executeScheduledStart returns for an existing        *)
(* recurring schedule, one stream_start event and one stream_start         *)
(* notification were written and the instance is streaming; when           *)
(* days_of_week names a weekday the id has one armed pair whose start is   *)
(* after the instant that fired, and when days_of_week is empty the id     *)
(* has no pending timer and no entry.                                      *)
(***************************************************************************)
C3_StartOfRecurringWithDaysArmsNextCycle ==
    (FireReturned("executeScheduledStart") /\ ~Val(lastOp.sched).is_one_time)
       => /\ StartWritten
          /\ IF Len(Val(lastOp.sched).days_of_week) > 0
             THEN NextCycleArmed
             ELSE PendingOf(lastOp.id) = {} /\ lastOp.id \notin DOMAIN activeSchedules

\* A start timer of a recurring schedule fired after its first stop was
\* armed, and the callback has returned.
C3_Witness ==
    /\ FireReturned("executeScheduledStart")
    /\ lastOp.via = "timer"
    /\ ~Val(lastOp.sched).is_one_time
    /\ Len(Val(lastOp.sched).days_of_week) > 0
    /\ PendingKind(lastOp.id, "start") # {}

(***************************************************************************)
(* C4.  When every call and timer callback runs to completion before the   *)
(* next begins, every schedule id has at most one pending start timer and  *)
(* at most one pending stop timer, and every pending timer is one its      *)
(* id's activeSchedules entry refers to.                                   *)
(***************************************************************************)
C4_NoDanglingOrDuplicateTimer ==
    /\ \A id \in ScheduleIds :
          /\ Cardinality(PendingKind(id, "start")) <= 1
          /\ Cardinality(PendingKind(id, "stop")) <= 1
    /\ \A t \in timers : Referenced(t)

\* An id is armed with both timers after initializeScheduler has returned
\* and timers have fired.
C4_Witness ==
    /\ inits > 0
    /\ Len(fireLog) >= 2
    /\ AllIdle
    /\ \E id \in ScheduleIds : OneArmedPair(id)

(***************************************************************************)
(* C5.  scheduleStream for a schedule with no valid next execution         *)
(* returns success = false with the error "No valid next execution time    *)
(* found", and then the id has no pending timer and no activeSchedules     *)
(* entry, whether or not it had timers before the call.                    *)
(***************************************************************************)
C5_FailedArmLeavesNothingArmed ==
    (lastOp.op = "scheduleStream" /\ ~HasNextExecution(lastOp.id))
       => /\ ~lastOp.success
          /\ lastOp.error = "No valid next execution time found"
          /\ PendingOf(lastOp.id) = {}
          /\ lastOp.id \notin DOMAIN activeSchedules

\* The failed call cancelled timers the id had pending.
C5_Witness ==
    /\ lastOp.op = "scheduleStream"
    /\ ~HasNextExecution(lastOp.id)
    /\ lastOp.cancelled # {}

(***************************************************************************)
(* C6.  unscheduleStream(id) returns success = true whether or not the id  *)
(* is armed; when it returns the id has no pending timer and no            *)
(* activeSchedules entry, and the entry and the pending timers of every    *)
(* other id are as they were.                                              *)
(***************************************************************************)
C6_UnscheduleTouchesOnlyItsId ==
    [][lastOp'.op = "unscheduleStream"
          => /\ lastOp'.success
             /\ {t \in timers' : t.id = lastOp'.id} = {}
             /\ lastOp'.id \notin DOMAIN activeSchedules'
             /\ \A other \in ScheduleIds \ {lastOp'.id} :
                   /\ (other \in DOMAIN activeSchedules') = (other \in DOMAIN activeSchedules)
                   /\ other \in DOMAIN activeSchedules
                         => activeSchedules'[other] = activeSchedules[other]
                   /\ {t \in timers' : t.id = other} = {t \in timers : t.id = other}]_vars

\* unscheduleStream cancelled pending timers while another id stayed armed.
C6_Witness ==
    /\ lastOp.op = "unscheduleStream"
    /\ lastOp.cancelled # {}
    /\ \E other \in ScheduleIds \ {lastOp.id} : OneArmedPair(other)

\* unscheduleStream returned for an id that had no entry.
C6_WitnessAbsent ==
    /\ lastOp.op = "unscheduleStream"
    /\ ~lastOp.hadEntry
    /\ lastOp.success

(***************************************************************************)
(* C7.  When initializeScheduler returns, the armed ids are the persisted  *)
(* schedules with is_active = true that have a valid next execution: no    *)
(* other id keeps an entry or a pending timer, and a schedule that failed  *)
(* to arm did not keep a later one from being armed.                       *)
(***************************************************************************)
C7_InitArmsTheActiveArmableSchedules ==
    InitReturned
       => /\ DOMAIN activeSchedules =
                {id \in DOMAIN schedulesTable :
                    schedulesTable[id].is_active /\ HasNextExecution(id)}
          /\ {t.id : t \in timers} = DOMAIN activeSchedules
          /\ \A t \in timers : Referenced(t)

\* A schedule that failed to arm was processed before one that is armed,
\* and a timer of an id that is not armed now was cancelled.
C7_Witness ==
    /\ InitReturned
    /\ \E i, j \in DOMAIN lastOp.order :
          /\ i < j
          /\ lastOp.order[i] \notin DOMAIN activeSchedules
          /\ lastOp.order[j] \in DOMAIN activeSchedules
    /\ \E t \in lastOp.cancelled : t.id \notin DOMAIN activeSchedules

(***************************************************************************)
(* Each planned instant of a schedule fires at most once, and a start      *)
(* callback writes at most one stream_start event.                         *)
(***************************************************************************)
NoDuplicateFire ==
    /\ \A i, j \in DOMAIN fireLog : fireLog[i] = fireLog[j] => i = j
    /\ lastOp.op = "executeScheduledStart" => lastOp.wroteEvents <= 1

(***************************************************************************)
(* C8, as the specification states it.  After any number of                *)
(* initializeScheduler calls, each completing before the next, every       *)
(* active schedule has exactly one pending start timer, and no planned     *)
(* instant fires twice.  Violated by an active schedule that cannot be     *)
(* armed (days_of_week = []): it has no pending start timer.               *)
(***************************************************************************)
C8_EveryActiveScheduleHasOneStart ==
    /\ InitReturned
          => \A id \in DOMAIN schedulesTable :
                schedulesTable[id].is_active
                   => Cardinality(PendingKind(id, "start")) = 1
    /\ NoDuplicateFire

(***************************************************************************)
(* C8, amended.  After any number of initializeScheduler calls, each       *)
(* completing before the next, every active schedule with a valid next     *)
(* execution has exactly one pending start timer and every other schedule  *)
(* has none, and no planned instant fires twice.                           *)
(***************************************************************************)
C8_RepeatedInitNeverDuplicates ==
    /\ InitReturned
          => \A id \in DOMAIN schedulesTable :
                Cardinality(PendingKind(id, "start")) =
                   IF schedulesTable[id].is_active /\ HasNextExecution(id) THEN 1 ELSE 0
    /\ NoDuplicateFire

\* initializeScheduler returned again, after an earlier call had returned
\* and a timer had fired, and it cancelled timers that were pending.
C8_Witness ==
    /\ InitReturned
    /\ lastOp.again
    /\ Len(fireLog) > 0
    /\ lastOp.cancelled # {}
    /\ timers # {}

(***************************************************************************)
(* C9.  Over any run of the engine a one-time schedule with an             *)
(* execution_date has at most one start fire.  Stated of SpecAsync, where  *)
(* it is violated: the orphaned start timer of C1 fires as well as the     *)
(* referenced one.                                                         *)
(***************************************************************************)
C9_OneTimeStartFiresAtMostOnce ==
    \A id \in DOMAIN schedulesTable :
       (schedulesTable[id].is_one_time /\ schedulesTable[id].execution_date # Null)
          => Cardinality(Fires("start", id)) <= 1

(***************************************************************************)
(* C10.  Once both timers of a one-time schedule have fired and their      *)
(* callbacks have returned, activeSchedules holds no entry for the id.     *)
(* Stated of Spec, where it is violated: no callback deletes the entry.    *)
(***************************************************************************)
C10_FiredOneTimeEntryIsDestroyed ==
    \A id \in DOMAIN schedulesTable :
       (/\ schedulesTable[id].is_one_time
        /\ AllIdle
        /\ Fires("start", id) # {}
        /\ Fires("stop", id) # {})
          => id \notin DOMAIN activeSchedules

\* What executeScheduledStop has written when it returns.
StopWritten ==
    /\ lastOp.wroteEvents = 1
    /\ lastOp.wroteNotifs = 1
    /\ Len(streamEventsTable) > 0
    /\ streamEventsTable[Len(streamEventsTable)] =
          [obs_instance_id |-> schedulesTable[lastOp.id].obs_instance_id,
           schedule_id |-> lastOp.id, event_type |-> "stream_stop"]
    /\ Len(notificationsTable) > 0
    /\ notificationsTable[Len(notificationsTable)] =
          [schedule_id |-> lastOp.id, notification_type |-> "stream_stop"]
    /\ ~obsInstancesTable[schedulesTable[lastOp.id].obs_instance_id].is_streaming

(***************************************************************************)
(* C11.  executeScheduledStop for an existing schedule writes one          *)
(* stream_stop event and one stream_stop notification and sets the         *)
(* instance's is_streaming to false, and no step of it changes             *)
(* activeSchedules or a pending timer: it never re-arms, whether the       *)
(* schedule is recurring or one-time.                                      *)
(***************************************************************************)
C11_StopWritesAndNeverRearms ==
    [][/\ (\E c \in CallIds : calls[c].op = "executeScheduledStop")
             => (timers' = timers /\ activeSchedules' = activeSchedules)
       /\ FireReturned("executeScheduledStop")' => StopWritten']_vars

\* executeScheduledStop has returned for a recurring schedule that is armed
\* with both timers for its next cycle.
C11_Witness ==
    /\ FireReturned("executeScheduledStop")
    /\ ~Val(lastOp.sched).is_one_time
    /\ OneArmedPair(lastOp.id)
    /\ StopWritten

\* executeScheduledStop, run by the stop timer of a one-time schedule, has
\* returned.
C11_WitnessOneTime ==
    /\ FireReturned("executeScheduledStop")
    /\ lastOp.via = "timer"
    /\ Val(lastOp.sched).is_one_time

(***************************************************************************)
(* C12.  When executeScheduledStart or executeScheduledStop runs for an id *)
(* whose schedule does not exist, the call returns without throwing,       *)
(* writes no event and no notification, changes no instance, and leaves    *)
(* the entry and the pending timers of every other id as they were.        *)
(***************************************************************************)
C12_MissingScheduleAbortsOneFiring ==
    [][\A c \in CallIds :
          (IsFire(calls[c]) /\ ~JoinFound(calls[c].id))
             => /\ lastOp'.op = calls[c].op
                /\ lastOp'.id = calls[c].id
                /\ ~lastOp'.failed
                /\ lastOp'.wroteEvents = 0
                /\ lastOp'.wroteNotifs = 0
                /\ streamEventsTable' = streamEventsTable
                /\ notificationsTable' = notificationsTable
                /\ obsInstancesTable' = obsInstancesTable
                /\ \A other \in ScheduleIds \ {calls[c].id} :
                      /\ {t \in timers' : t.id = other} = {t \in timers : t.id = other}
                      /\ (other \in DOMAIN activeSchedules') = (other \in DOMAIN activeSchedules)
                      /\ other \in DOMAIN activeSchedules
                            => activeSchedules'[other] = activeSchedules[other]]_vars

\* A fire callback returned for the id no schedule has while another id was
\* armed with both timers.
C12_Witness ==
    /\ lastOp.op \in {"executeScheduledStart", "executeScheduledStop"}
    /\ ~lastOp.found
    /\ ~lastOp.failed
    /\ lastOp.id \notin DOMAIN schedulesTable
    /\ \E other \in DOMAIN schedulesTable : OneArmedPair(other)

(***************************************************************************)
(* Civil time: the wall clock of the fixed offset UTC+5:30, whatever the   *)
(* host's timezone.                                                        *)
(***************************************************************************)
CivilDay(t) == (t + IstOffset) \div MinutesPerDay

CivilWeekday(t) == (CivilDay(t) + EpochWeekday) % 7

\* The instant at which the civil day shows the time of day hm.
CivilInstant(day, hm) == day * MinutesPerDay + hm[1] * 60 + hm[2] - IstOffset

\* The civil starts of the schedule around the clock, on listed weekdays.
CivilStarts(schedule, clock) ==
    {CivilInstant(CivilDay(clock) + d, HoursMinutes(schedule.start_time)) :
        d \in {x \in -1..(LookaheadDays + 1) :
                  Includes(schedule.days_of_week,
                           (CivilDay(clock) + x + EpochWeekday) % 7)}}

\* The earliest civil start strictly after the clock.
EarliestCivilStart(schedule, clock) ==
    LET later == {t \in CivilStarts(schedule, clock) : t > clock}
    IN  IF later = {} THEN Null
        ELSE Some(CHOOSE t \in later : \A u \in later : t <= u)

\* calculateNextExecution has just returned for a schedule of this kind.
PlannedRecurring ==
    /\ lastOp.op = "calculateNextExecution"
    /\ ~Val(lastOp.sched).is_one_time

PlannedOneTime ==
    /\ lastOp.op = "calculateNextExecution"
    /\ Val(lastOp.sched).is_one_time
    /\ Val(lastOp.sched).execution_date # Null

(***************************************************************************)
(* C13.  For a recurring schedule with non-empty days_of_week,             *)
(* calculateNextExecution returns the earliest instant strictly after now  *)
(* whose civil (UTC+5:30) weekday is listed and whose civil time of day is *)
(* start_time.  Stated of SpecPlanner, where it is violated on a host      *)
(* whose timezone is not UTC (the host dependence of C16).                 *)
(***************************************************************************)
C13_RecurringReturnsEarliestCivilStart ==
    (PlannedRecurring /\ Len(Val(lastOp.sched).days_of_week) > 0)
       => lastOp.result = EarliestCivilStart(Val(lastOp.sched), lastOp.at)

(***************************************************************************)
(* C14.  For a one-time schedule calculateNextExecution returns start_time *)
(* on the civil (UTC+5:30) date of execution_date when that instant is     *)
(* strictly after now, and null otherwise, whatever days_of_week holds.    *)
(* Stated of SpecPlanner, where it is violated on a host whose timezone is *)
(* not UTC (the host dependence of C16).                                   *)
(***************************************************************************)
C14_OneTimeReturnsCivilStartOfItsDate ==
    PlannedOneTime
       => LET schedule == Val(lastOp.sched)
              start == CivilInstant(CivilDay(Val(schedule.execution_date)),
                                    HoursMinutes(schedule.start_time))
          IN  lastOp.result = IF start > lastOp.at THEN Some(start) ELSE Null

(***************************************************************************)
(* C15.  For a recurring schedule whose days_of_week is a non-empty subset *)
(* of 0..6, calculateNextExecution returns an instant strictly after now   *)
(* and at most 7 days after now; for days_of_week = [] it returns null.    *)
(***************************************************************************)
C15_RecurringIsWithinSevenDays ==
    PlannedRecurring
       => IF Len(Val(lastOp.sched).days_of_week) = 0
          THEN lastOp.result = Null
          ELSE /\ lastOp.result # Null
               /\ Val(lastOp.result) > lastOp.at
               /\ Val(lastOp.result) <= lastOp.at + 7 * MinutesPerDay

\* The planner was called at the very start instant of a schedule with one
\* weekday, and returned the instant 7 days later.
C15_Witness ==
    /\ PlannedRecurring
    /\ Len(Val(lastOp.sched).days_of_week) = 1
    /\ lastOp.result # Null
    /\ Val(lastOp.result) = lastOp.at + 7 * MinutesPerDay

(***************************************************************************)
(* C16.  The instant calculateNextExecution returns depends on the         *)
(* schedule, now and the fixed offset only: on hosts with different        *)
(* timezones the same call returns the same instant.  Stated of            *)
(* SpecPlanner, where it is violated: setHours, setDate and getDay work in *)
(* the host's timezone.                                                    *)
(***************************************************************************)
C16_PlannerIgnoresHostTimezone ==
    lastOp.op = "calculateNextExecution"
       => \A tz \in HostOffsets :
             CalculateNextExecution(Val(lastOp.sched), lastOp.at, tz) = lastOp.result

\* Minutes since midnight of an "HH:MM" string.
MinuteOfDay(s) == HoursMinutes(s)[1] * 60 + HoursMinutes(s)[2]

\* The civil length of the window of a schedule, overnight when end_time is
\* not after start_time.
WindowLength(schedule) ==
    LET start == MinuteOfDay(schedule.start_time)
        end == MinuteOfDay(schedule.end_time)
    IN  IF end > start THEN end - start ELSE end - start + MinutesPerDay

(***************************************************************************)
(* C17.  For every armed schedule the stop timer is due at the start       *)
(* instant plus the civil window length: end_time - start_time minutes,    *)
(* and 1440 more when end_time <= start_time.  Stated of Spec, where it is *)
(* violated: the stop is put at end_time in the host's timezone on the     *)
(* host's day of the start, while the start is a UTC+5:30 civil time.      *)
(***************************************************************************)
C17_StopIsStartPlusWindow ==
    \A id \in DOMAIN schedulesTable :
       \A s \in PendingKind(id, "start") :
          \A e \in PendingKind(id, "stop") :
             e.cycle = s.at => e.at = s.at + WindowLength(schedulesTable[id])

(***************************************************************************)
(* The vocabulary of the properties of validateScheduleConflicts.          *)
(***************************************************************************)
Validated == lastOp.op = "validateScheduleConflicts"

\* The conflicts of a kind that name exactly the schedules ids.
ConflictsNaming(kind, ids) ==
    {i \in DOMAIN lastOp.result :
        /\ lastOp.result[i].kind = kind
        /\ {lastOp.result[i].names[k] : k \in DOMAIN lastOp.result[i].names} = ids}

ConflictKinds == {"invalid time range", "overlapping times", "insufficient break time"}

\* The end of the window in minutes of the day, a day later when it is not
\* after the start.
AdjustedEnd(schedule) ==
    IF MinuteOfDay(schedule.end_time) <= MinuteOfDay(schedule.start_time)
    THEN MinuteOfDay(schedule.end_time) + MinutesPerDay
    ELSE MinuteOfDay(schedule.end_time)

DaysOf(schedule) == {schedule.days_of_week[k] : k \in DOMAIN schedule.days_of_week}

Comparable(a, b) ==
    /\ a.obs_instance_id = b.obs_instance_id
    /\ DaysOf(a) \cap DaysOf(b) # {}

OverlapExpected(a, b) ==
    /\ Comparable(a, b)
    /\ MinuteOfDay(a.start_time) < AdjustedEnd(b)
    /\ AdjustedEnd(a) > MinuteOfDay(b.start_time)

\* Both times are written with two digits of hours and two of minutes.
PaddedTimes(schedule) == Len(schedule.start_time) = 5 /\ Len(schedule.end_time) = 5

(***************************************************************************)
(* C18.  validateScheduleConflicts reports an invalid time range for a     *)
(* schedule if and only if its start_time equals its end_time; a schedule  *)
(* whose start_time is later than its end_time is a valid overnight        *)
(* schedule.  Stated of SpecValidator, where it is violated: the check is  *)
(* start_time >= end_time on the strings.  It is stated here of the        *)
(* schedules whose times are written HH:MM, and is violated for them.      *)
(***************************************************************************)
C18_InvalidRangeOnlyForEqualTimes ==
    Validated
       => \A i \in DOMAIN lastOp.schedules :
             PaddedTimes(lastOp.schedules[i])
                => ((ConflictsNaming("invalid time range", {lastOp.schedules[i].id}) # {})
                       <=> (lastOp.schedules[i].start_time = lastOp.schedules[i].end_time))

C20_OverlapOncePerPair ==
    Validated
       => \A p, q \in DOMAIN lastOp.schedules :
             p < q =>
                LET a == lastOp.schedules[p]
                    b == lastOp.schedules[q]
                IN  /\ Cardinality(ConflictsNaming("overlapping times", {a.id, b.id})) =
                          IF OverlapExpected(a, b) THEN 1 ELSE 0
                    /\ ~Comparable(a, b)
                          => \A kind \in ConflictKinds : ConflictsNaming(kind, {a.id, b.id}) = {}

\* Three schedules: an overnight one that overlaps another, and one of
\* another instance at the same weekdays; one conflict is returned apart
\* from the time ranges.
C20_Witness ==
    /\ Validated
    /\ Len(lastOp.schedules) = 3
    /\ \E p, q, r \in DOMAIN lastOp.schedules :
          LET a == lastOp.schedules[p]
              b == lastOp.schedules[q]
              c == lastOp.schedules[r]
          IN  /\ MinuteOfDay(a.end_time) <= MinuteOfDay(a.start_time)
              /\ ConflictsNaming("overlapping times", {a.id, b.id}) # {}
              /\ c.obs_instance_id # a.obs_instance_id
              /\ DaysOf(c) \cap DaysOf(a) # {}

(***************************************************************************)
(* C21.  For two schedules of the input on the same instance with          *)
(* intersecting weekdays, where the adjusted end of one is at or before    *)
(* the start of the other, validateScheduleConflicts reports exactly one   *)
(* insufficient break time naming the two when the gap between that end    *)
(* and that start is 0 to 4 minutes, and none when it is 5 minutes or      *)
(* more, whichever of the two comes first in the input.                    *)
(***************************************************************************)
\* The break between the end of a and the start of b.
BreakBetween(a, b) == MinuteOfDay(b.start_time) - AdjustedEnd(a)

C21_BreakOfFiveMinutes ==
    Validated
       => \A p, q \in DOMAIN lastOp.schedules :
             LET a == lastOp.schedules[p]
                 b == lastOp.schedules[q]
             IN  (p # q /\ Comparable(a, b) /\ BreakBetween(a, b) >= 0)
                    => Cardinality(ConflictsNaming("insufficient break time", {a.id, b.id})) =
                          IF BreakBetween(a, b) < 5 THEN 1 ELSE 0

\* Two schedules four minutes apart were validated, the later one first in
\* the input: the one conflict is their insufficient break time.
C21_Witness ==
    /\ Validated
    /\ Len(lastOp.schedules) = 2
    /\ Len(lastOp.result) = 1
    /\ lastOp.result[1].kind = "insufficient break time"
    /\ BreakBetween(lastOp.schedules[2], lastOp.schedules[1]) = 4

\* Two schedules five minutes apart were validated, with no conflict.
C21_WitnessFive ==
    /\ Validated
    /\ Len(lastOp.schedules) = 2
    /\ Comparable(lastOp.schedules[1], lastOp.schedules[2])
    /\ BreakBetween(lastOp.schedules[1], lastOp.schedules[2]) = 5
    /\ lastOp.result = <<>>

(***************************************************************************)
(* C22.  getNextScheduledEvent returns null when no active schedule has a  *)
(* next execution; otherwise it returns an event of type 'start' whose     *)
(* scheduled_time is strictly after now and is the minimum of              *)
(* calculateNextExecution over the schedules with is_active = true, with   *)
(* the id of a schedule that has that next execution and the name of that  *)
(* schedule's instance.  No inactive schedule is ever returned.            *)
(***************************************************************************)
NextEventReturned == lastOp.op = "getNextScheduledEvent"

ActiveIds == {i \in DOMAIN schedulesTable : schedulesTable[i].is_active}

NextOf(id) == CalculateNextExecution(schedulesTable[id], now, hostOffset)

ActiveNexts == {Val(NextOf(i)) : i \in {j \in ActiveIds : NextOf(j) # Null}}

C22_WitnessNull ==
    /\ NextEventReturned
    /\ lastOp.result = Null
    /\ \E i \in DOMAIN schedulesTable : NextOf(i) # Null

(***************************************************************************)
(* C23.  The engine never arms an inactive schedule: no step of            *)
(* initializeScheduler, and no re-arm step of executeScheduledStart,       *)
(* creates a timer for a schedule whose is_active is false in the store    *)
(* at that step.  Stated of SpecStore, where it is violated: the start     *)
(* timer of a schedule deactivated in the store after it was armed still   *)
(* fires, and executeScheduledStart re-arms the row it has read without    *)
(* looking at its is_active.                                               *)
(***************************************************************************)
\* The call in flight that is creating timers for the schedule id.
ArmingCalls(id) ==
    {c \in CallIds : /\ calls[c].pc = "arm"
                     /\ calls[c].id = id
                     /\ calls[c].op \in {"initializeScheduler", "executeScheduledStart"}}

C23_InactiveScheduleIsNeverArmed ==
    [][\A t \in timers' \ timers :
          ArmingCalls(t.id) # {} => schedulesTable[t.id].is_active]_vars

C24_WitnessNull ==
    /\ lastOp.op = "calculateNextExecution"
    /\ lastOp.again
    /\ lastOp.result = Null

(***************************************************************************)
(* C25.  After createSchedule succeeds for a schedule that is active and   *)
(* has a valid next execution, the new schedule id has a timer pair in     *)
(* the engine, without a later initializeScheduler.  Stated of SpecStore,  *)
(* where it is violated: createSchedule inserts the row and returns, and   *)
(* never calls scheduleStream.                                             *)
(***************************************************************************)
C25_CreatedScheduleIsArmed ==
    (/\ lastOp.op = "createSchedule"
     /\ lastOp.success
     /\ schedulesTable[lastOp.id].is_active
     /\ HasNextExecution(lastOp.id))
       => OneArmedPair(lastOp.id)

(***************************************************************************)
(* C26.  startStream on an instance that is missing or already streaming,  *)
(* and stopStream on an instance that is missing or not streaming, return  *)
(* success = false with the message 'OBS instance not found', 'Stream is   *)
(* already active' or 'Stream is not active', and leave obs_instances and  *)
(* stream_events as they were; any other call succeeds, flips is_streaming *)
(* of its instance only and appends exactly one event: manual_start or     *)
(* manual_stop when manual, stream_start or stream_stop otherwise.         *)
(***************************************************************************)
\* The instance table differs from the one before the step in the
\* is_streaming of instance i at most, which is now streaming.
OnlyStreamingSet(i, streaming) ==
    /\ DOMAIN obsInstancesTable' = DOMAIN obsInstancesTable
    /\ obsInstancesTable'[i].is_streaming = streaming
    /\ obsInstancesTable'[i].name = obsInstancesTable[i].name
    /\ obsInstancesTable'[i].current_scene = obsInstancesTable[i].current_scene
    /\ \A j \in DOMAIN obsInstancesTable : j # i => obsInstancesTable'[j] = obsInstancesTable[j]

Refused(message) ==
    /\ ~lastOp'.success
    /\ lastOp'.message = message
    /\ obsInstancesTable' = obsInstancesTable
    /\ streamEventsTable' = streamEventsTable

Logged(i, streaming, eventType) ==
    /\ lastOp'.success
    /\ OnlyStreamingSet(i, streaming)
    /\ streamEventsTable' =
          Append(streamEventsTable,
                 [obs_instance_id |-> i, schedule_id |-> Null, event_type |-> eventType])

C26_StreamCallsRefuseOrLogOnce ==
    [][/\ lastOp'.op = "startStream"
          => LET i == lastOp'.id
                 manual == Val(lastOp'.input).manual
             IN  IF i \notin DOMAIN obsInstancesTable THEN Refused("OBS instance not found")
                 ELSE IF obsInstancesTable[i].is_streaming THEN Refused("Stream is already active")
                 ELSE Logged(i, TRUE, IF manual THEN "manual_start" ELSE "stream_start")
       /\ lastOp'.op = "stopStream"
          => LET i == lastOp'.id
                 manual == Val(lastOp'.input).manual
             IN  IF i \notin DOMAIN obsInstancesTable THEN Refused("OBS instance not found")
                 ELSE IF ~obsInstancesTable[i].is_streaming THEN Refused("Stream is not active")
                 ELSE Logged(i, FALSE, IF manual THEN "manual_stop" ELSE "stream_stop")]_vars

\* A scheduled start of the second instance was logged and a manual stop
\* after it, and a further stop of that instance has just been refused.
C26_Witness ==
    /\ lastOp.op = "stopStream"
    /\ lastOp.id = 2
    /\ ~lastOp.success
    /\ lastOp.message = "Stream is not active"
    /\ streamEventsTable =
          <<[obs_instance_id |-> 2, schedule_id |-> Null, event_type |-> "stream_start"],
            [obs_instance_id |-> 2, schedule_id |-> Null, event_type |-> "manual_stop"]>>

(***************************************************************************)
(* C27.  After executeControlCommand 'switch_scene' succeeds for instance  *)
(* I and scene name N, the active scenes of I are exactly the scenes of I  *)
(* named N, current_scene of I is N, and the scenes of the other instances *)
(* are unchanged; when scene_name is missing, or no scene of I has that    *)
(* name, the command returns success = false and changes nothing; in       *)
(* every other case it succeeds.                                           *)
(***************************************************************************)
ScenesOf(i) == {k \in DOMAIN scenesTable : scenesTable[k].obs_instance_id = i}

SceneSwitched(i, name) ==
    /\ lastOp'.success
    /\ DOMAIN scenesTable' = DOMAIN scenesTable
    /\ \A k \in DOMAIN scenesTable :
          IF k \in ScenesOf(i)
          THEN scenesTable'[k] = [scenesTable[k] EXCEPT !.is_active = (scenesTable[k].name = name)]
          ELSE scenesTable'[k] = scenesTable[k]
    /\ DOMAIN obsInstancesTable' = DOMAIN obsInstancesTable
    /\ obsInstancesTable'[i] = [obsInstancesTable[i] EXCEPT !.current_scene = Some(name)]
    /\ \A j \in DOMAIN obsInstancesTable : j # i => obsInstancesTable'[j] = obsInstancesTable[j]

SceneRefused ==
    /\ ~lastOp'.success
    /\ scenesTable' = scenesTable
    /\ obsInstancesTable' = obsInstancesTable

C27_SwitchSceneActivatesExactlyTheNamed ==
    [][lastOp'.op = "switch_scene"
          => LET i == lastOp'.id
                 n == Val(lastOp'.input).scene_name
             IN  IF n = Null THEN SceneRefused
                 ELSE IF \A k \in ScenesOf(i) : scenesTable[k].name # Val(n) THEN SceneRefused
                 ELSE SceneSwitched(i, Val(n))]_vars

\* The first instance was switched to the name two of its scenes have: both
\* are active, its scene that was active is not, and the second instance
\* still has its two active scenes.
C27_Witness ==
    /\ lastOp.op = "switch_scene"
    /\ lastOp.success
    /\ lastOp.id = 1
    /\ {k \in DOMAIN scenesTable : scenesTable[k].is_active} = {2, 3, 5, 6}
    /\ obsInstancesTable[1].current_scene = Some("Test Scene")

(***************************************************************************)
(* C28.  In a scheduled start the stream_start StreamEvent is recorded     *)
(* before the target is placed into the streaming state: in every          *)
(* reachable state, a failed fire included, an instance that is streaming  *)
(* has a stream_start event in the log.  (In SpecFaulty only               *)
(* executeScheduledStart sets is_streaming.)  Stated of SpecFaulty, where  *)
(* it is violated: the callback updates the instance first and inserts     *)
(* the event after it, and an insert that rejects leaves the instance      *)
(* streaming with no event.                                                *)
(***************************************************************************)
StartEventsOf(i) ==
    {k \in DOMAIN streamEventsTable :
        /\ streamEventsTable[k].obs_instance_id = i
        /\ streamEventsTable[k].event_type = "stream_start"}

C28_StreamingInstanceHasStartEvent ==
    \A i \in DOMAIN obsInstancesTable :
       obsInstancesTable[i].is_streaming => StartEventsOf(i) # {}

(***************************************************************************)
(* C29.  When a database call of executeScheduledStart, run by the start   *)
(* timer of a recurring schedule, rejects after the schedule was read      *)
(* (the update, the event insert or the notification insert), the          *)
(* callback catches it and returns: the schedule has no pending start      *)
(* timer, being fired and not re-armed, no timer and no entry of           *)
(* activeSchedules is changed by the failure, and no instant of a          *)
(* schedule fires a second time.                                           *)
(***************************************************************************)
StartFailed ==
    /\ lastOp.op = "executeScheduledStart"
    /\ lastOp.via = "timer"
    /\ lastOp.failed
    /\ lastOp.found
    /\ ~Val(lastOp.sched).is_one_time

C29_FailedStartIsNotRearmedNorRetried ==
    [][/\ \A i, j \in DOMAIN fireLog' : fireLog'[i] = fireLog'[j] => i = j
       /\ StartFailed'
          => /\ lastOp'.error = "caught"
             /\ AllIdle'
             /\ timers' = timers
             /\ activeSchedules' = activeSchedules
             /\ \A t \in timers' : ~(t.id = lastOp'.id /\ t.kind = "start")]_vars

\* The notification insert of the start of a recurring schedule rejected,
\* after the event was written; the stop timer of the cycle is pending, and
\* so are timers of another schedule.
C29_Witness ==
    /\ StartFailed
    /\ lastOp.wroteEvents = 1
    /\ lastOp.wroteNotifs = 0
    /\ PendingKind(lastOp.id, "stop") # {}
    /\ \E t \in timers : t.id # lastOp.id

(***************************************************************************)
(* C30.  When unscheduleStream(id) is called at any await of an            *)
(* executeScheduledStart in flight for the same recurring id, which then   *)
(* re-arms, no pending timer of the id is ever left outside                *)
(* activeSchedules, and every unscheduleStream(id), the one issued after   *)
(* the fire has completed included, leaves the id with no pending timer.   *)
(***************************************************************************)
\* The start callback of the schedule id is in flight, past its select.
StartInFlight(id) ==
    \E c \in CallIds :
       /\ calls[c].op = "executeScheduledStart"
       /\ calls[c].id = id
       /\ calls[c].pc \in {"update", "insertEvent", "insertNotification", "calc", "arm"}

C30_UnarmIsSafeDuringAFire ==
    [][/\ \A t \in timers' : Referenced(t)'
       /\ lastOp'.op = "unscheduleStream"
          => \A t \in timers' : t.id # lastOp'.id]_vars

\* unscheduleStream has just returned for a recurring schedule whose start
\* callback is in flight past its select, and has cancelled the stop timer
\* of the cycle.
C30_Witness ==
    /\ lastOp.op = "unscheduleStream"
    /\ StartInFlight(lastOp.id)
    /\ ~schedulesTable[lastOp.id].is_one_time
    /\ \E t \in lastOp.cancelled : t.kind = "stop"

\* After such a call the fire has re-armed the id and completed, and a
\* second unscheduleStream has cancelled the new pair.
C30_WitnessAfter ==
    /\ lastOp.op = "unscheduleStream"
    /\ AllIdle
    /\ rpcCalls = 2
    /\ Fires("start", lastOp.id) # {}
    /\ Cardinality(lastOp.cancelled) = 2
    /\ streamEventsTable # <<>>

(***************************************************************************)
(* C31.  Every scheduleStream that succeeds, whoever calls it, leaves the  *)
(* id with exactly two pending timers, a start and a stop, both held by    *)
(* the id's activeSchedules entry, with now < start instant < stop         *)
(* instant: the branch that omits the stop timer is never taken.           *)
(***************************************************************************)
\* activeSchedules.set(id, timers) has run in this step.
EntrySet(id) ==
    /\ id \in DOMAIN activeSchedules'
    /\ id \in DOMAIN activeSchedules => activeSchedules'[id] # activeSchedules[id]

C31_ArmedPairIsStartThenStop ==
    [][\A id \in DOMAIN activeSchedules' :
          EntrySet(id) =>
             /\ OneArmedPair(id)'
             /\ \A s \in PendingKind(id, "start")' :
                   \A e \in PendingKind(id, "stop")' :
                      now' < s.at /\ s.at < e.at]_vars

\* scheduleStream has just succeeded for the overnight schedule, whose
\* end_time taken on the day of the start is before the start.
C31_Witness ==
    /\ lastOp.op = "scheduleStream"
    /\ lastOp.success
    /\ MinuteOfDay(schedulesTable[lastOp.id].end_time)
          < MinuteOfDay(schedulesTable[lastOp.id].start_time)
    /\ OneArmedPair(lastOp.id)
    /\ \A e \in PendingKind(lastOp.id, "stop") : e.at > now + MinutesPerDay

(***************************************************************************)
(* C32.  If two schedules of the input on the same instance are both       *)
(* inside their windows at one civil minute of the week, an overnight      *)
(* window continuing into the following weekday, then                      *)
(* validateScheduleConflicts reports an overlap naming the two.  Stated of *)
(* SpecValidator, where it is violated: 23:00 to 01:00 on Monday and 00:30 *)
(* to 02:00 on Tuesday share Tuesday 00:30 to 01:00 but no weekday of      *)
(* days_of_week, and the pair is not compared.                             *)
(***************************************************************************)
\* The schedule is inside its window at the minute of the weekday.
InWindow(schedule, day, minute) ==
    LET start == MinuteOfDay(schedule.start_time)
        end == MinuteOfDay(schedule.end_time)
    IN  IF start < end
        THEN day \in DaysOf(schedule) /\ start <= minute /\ minute < end
        ELSE \/ day \in DaysOf(schedule) /\ start <= minute
             \/ ((day + 6) % 7) \in DaysOf(schedule) /\ minute < end

\* Two windows that share a minute share the minute one of them opens at, or
\* midnight.
ShareMinute(a, b) ==
    \E day \in 0..6 :
       \E minute \in {0, MinuteOfDay(a.start_time), MinuteOfDay(b.start_time)} :
          InWindow(a, day, minute) /\ InWindow(b, day, minute)

C32_SharedMinuteIsReportedAsOverlap ==
    Validated
       => \A p, q \in DOMAIN lastOp.schedules :
             LET a == lastOp.schedules[p]
                 b == lastOp.schedules[q]
             IN  (p < q /\ a.obs_instance_id = b.obs_instance_id /\ ShareMinute(a, b))
                    => ConflictsNaming("overlapping times", {a.id, b.id}) # {}

(***************************************************************************)
(* C33.  For every unordered pair of schedules of the input,               *)
(* validateScheduleConflicts returns at most one conflict about the pair:  *)
(* an overlap, or an insufficient break time in one of the two directions, *)
(* never two of them.                                                      *)
(***************************************************************************)
\* The conflicts returned about the pair of schedules ids.
PairwiseConflicts(ids) ==
    ConflictsNaming("overlapping times", ids)
       \cup ConflictsNaming("insufficient break time", ids)

C33_AtMostOneConflictPerPair ==
    Validated
       => \A p, q \in DOMAIN lastOp.schedules :
             p < q => Cardinality(PairwiseConflicts({lastOp.schedules[p].id,
                                                     lastOp.schedules[q].id})) <= 1

\* A schedule that ends at 23:00 and an overnight one that starts at 23:00
\* and ends at 01:00, when the first starts, were validated: the one
\* conflict about the pair is the insufficient break time after the first.
C33_Witness ==
    /\ Validated
    /\ Len(lastOp.schedules) = 2
    /\ \E p, q \in DOMAIN lastOp.schedules :
          LET a == lastOp.schedules[p]
              b == lastOp.schedules[q]
          IN  /\ MinuteOfDay(a.end_time) = MinuteOfDay(b.start_time)
              /\ MinuteOfDay(b.end_time) = MinuteOfDay(a.start_time)
              /\ MinuteOfDay(a.start_time) < MinuteOfDay(a.end_time)
              /\ Cardinality(PairwiseConflicts({a.id, b.id})) = 1
              /\ \E i \in ConflictsNaming("insufficient break time", {a.id, b.id}) :
                    lastOp.result[i].names = <<a.id, b.id>>

(***************************************************************************)
(* C34.  The conflicts validateScheduleConflicts finds do not depend on    *)
(* the order of its input: called with any reordering of the same          *)
(* schedules it returns, for every schedule, the same number of invalid    *)
(* time ranges and, for every unordered pair, the same number of overlaps  *)
(* and of insufficient break times.                                        *)
(***************************************************************************)
\* The input in another order.
Reorderings(list) ==
    {[i \in 1..Len(list) |-> list[f[i]]] : f \in Permutations(1..Len(list))}

\* How many conflicts of the kind in a result name exactly the schedules ids.
CountNaming(result, kind, ids) ==
    Cardinality({i \in DOMAIN result :
                    /\ result[i].kind = kind
                    /\ {result[i].names[k] : k \in DOMAIN result[i].names} = ids})

IdsOf(list) == {list[i].id : i \in DOMAIN list}

C34_ConflictsIgnoreInputOrder ==
    Validated
       => \A other \in Reorderings(lastOp.schedules) :
             LET result == ValidateScheduleConflicts(other)
             IN  \A a, b \in IdsOf(lastOp.schedules) :
                    \A kind \in ConflictKinds :
                       CountNaming(result, kind, {a, b})
                          = CountNaming(lastOp.result, kind, {a, b})

\* Two schedules of one instance with the same start_time and a common
\* weekday were validated with a third that sorts before them: the sort
\* leaves the two in the order of the input, and their overlap names them
\* in that order.
C34_Witness ==
    /\ Validated
    /\ Len(lastOp.schedules) = 3
    /\ \E p, q, r \in DOMAIN lastOp.schedules :
          LET a == lastOp.schedules[p]
              b == lastOp.schedules[q]
              c == lastOp.schedules[r]
          IN  /\ p < q
              /\ a.start_time = b.start_time
              /\ Comparable(a, b)
              /\ \E i \in DOMAIN lastOp.result :
                    /\ lastOp.result[i].kind = "overlapping times"
                    /\ lastOp.result[i].names = <<a.id, b.id>>
              /\ LocaleCompare(c.start_time, a.start_time) < 0
              /\ r = 3

(***************************************************************************)
(* C35.  validateScheduleConflicts reports an invalid time range for a     *)
(* schedule exactly when its start, in minutes of the day, is not before   *)
(* its end, for every time string the schedule input accepts, hours        *)
(* written with one digit included: 9:00 to 10:00 is never reported.       *)
(* Stated of SpecValidator, where it is violated: the check compares the   *)
(* strings, and "9:00" >= "10:00".                                         *)
(***************************************************************************)
C35_InvalidRangeIsNumeric ==
    Validated
       => \A i \in DOMAIN lastOp.schedules :
             (ConflictsNaming("invalid time range", {lastOp.schedules[i].id}) # {})
                <=> (MinuteOfDay(lastOp.schedules[i].start_time)
                        >= MinuteOfDay(lastOp.schedules[i].end_time))

(***************************************************************************)
(* C36.  For a schedule with is_one_time = true and no execution_date,     *)
(* calculateNextExecution returns null, whatever days_of_week holds: a     *)
(* one-time schedule is never planned from its weekdays.  Stated of        *)
(* SpecPlanner, where it is violated: without an execution_date the        *)
(* one-time case is skipped and the schedule is planned as a recurring     *)
(* one.                                                                    *)
(***************************************************************************)
C36_OneTimeWithoutDateIsNotPlanned ==
    (/\ lastOp.op = "calculateNextExecution"
     /\ Val(lastOp.sched).is_one_time
     /\ Val(lastOp.sched).execution_date = Null)
       => lastOp.result = Null

(***************************************************************************)
(* C37.  From instances that are not streaming and an empty event log,     *)
(* after any sequence of startStream and stopStream calls, each one        *)
(* running to completion, an instance is streaming exactly when the last   *)
(* event logged for it is a start, and the events logged for it are        *)
(* alternately a start and a stop, the first one a start.                  *)
(***************************************************************************)
StartTypes == {"manual_start", "stream_start"}

StopTypes == {"manual_stop", "stream_stop"}

\* The event types logged for the instance, in the order of the log.
EventTypesOf(i) ==
    LET rows == SelectSeq(streamEventsTable, LAMBDA e : e.obs_instance_id = i)
    IN  [k \in DOMAIN rows |-> rows[k].event_type]

C37_StreamingFollowsAlternatingLog ==
    \A i \in DOMAIN obsInstancesTable :
       LET types == EventTypesOf(i)
       IN  /\ \A k \in DOMAIN types :
                 types[k] \in (IF k % 2 = 1 THEN StartTypes ELSE StopTypes)
           /\ obsInstancesTable[i].is_streaming
                 <=> (Len(types) > 0 /\ types[Len(types)] \in StartTypes)

\* An instance was started by hand, stopped as scheduled and started again:
\* it is streaming, with three events in its log.
C37_Witness ==
    /\ lastOp.op = "startStream"
    /\ lastOp.success
    /\ EventTypesOf(lastOp.id) = <<"manual_start", "stream_stop", "stream_start">>
    /\ obsInstancesTable[lastOp.id].is_streaming

(***************************************************************************)
(* C38.  When startStream calls for one instance that is not streaming     *)
(* interleave at their awaits, at most one start event is appended for the *)
(* instance (and at most one call returns success, the others being        *)
(* refused with 'Stream is already active').  Stated of SpecStartRace,     *)
(* where it is violated: both calls read is_streaming = false before       *)
(* either writes it, and both update the instance and insert an event.     *)
(***************************************************************************)
\* The start events logged for the instance, manual and scheduled.
StartsLoggedFor(i) ==
    {k \in DOMAIN streamEventsTable :
        /\ streamEventsTable[k].obs_instance_id = i
        /\ streamEventsTable[k].event_type \in StartTypes}

C38_InterleavedStartsLogOneEvent ==
    \A i \in DOMAIN obsInstancesTable : Cardinality(StartsLoggedFor(i)) <= 1

(***************************************************************************)
(* C39.  For a streaming instance that has stream_start events,            *)
(* getStreamingStatus returns as stream_duration the whole seconds from    *)
(* the most recent of them, the one with the greatest occurred_at, to now; *)
(* for an instance that is not streaming it returns null.  Stated of       *)
(* SpecStatus, where it is violated: the select is ordered by occurred_at  *)
(* ascending, and its first row is the oldest stream_start of the          *)
(* instance.                                                               *)
(***************************************************************************)
\* occurred_at of the stream_start events of the instance.
StreamStartsAt(i) ==
    {streamEventsTable[k].occurred_at :
        k \in {j \in DOMAIN streamEventsTable :
                  /\ streamEventsTable[j].obs_instance_id = i
                  /\ streamEventsTable[j].event_type = "stream_start"}}

\* The whole seconds from the instant, in milliseconds, to the clock.
SecondsSince(at) == (now * 60 * MsPerSecond - at) \div MsPerSecond

C39_DurationIsSinceMostRecentStart ==
    (lastOp.op = "getStreamingStatus" /\ lastOp.found)
       => IF ~obsInstancesTable[lastOp.id].is_streaming
          THEN lastOp.result.stream_duration = Null
          ELSE StreamStartsAt(lastOp.id) # {}
                  => \E at \in StreamStartsAt(lastOp.id) :
                        /\ \A other \in StreamStartsAt(lastOp.id) : other <= at
                        /\ lastOp.result.stream_duration = Some(SecondsSince(at))

(***************************************************************************)
(* C40.  updateYouTubeStreamMetadata refuses a stream key of fewer than 10 *)
(* characters, metadata with no property, a title of more than 100         *)
(* characters, a description of more than 5000, more than 30 tags and a    *)
(* tag of more than 100 characters, and accepts values at these limits; a  *)
(* refused call leaves the mock store as it was, and an accepted call      *)
(* changes no entry but the one of its stream key.                         *)
(***************************************************************************)
\* The input passes every limit the property names.
WithinLimits(streamKey, metadata) ==
    /\ Len(streamKey) >= 10
    /\ DOMAIN metadata # {}
    /\ "title" \in DOMAIN metadata => Len(metadata["title"]) <= 100
    /\ "description" \in DOMAIN metadata => Len(metadata["description"]) <= 5000
    /\ "tags" \in DOMAIN metadata =>
          /\ Len(metadata["tags"]) <= 30
          /\ \A i \in DOMAIN metadata["tags"] : Len(metadata["tags"][i]) <= 100

\* The entries of the store other than the one of the key are as they were.
OtherEntriesKept(streamKey) ==
    /\ DOMAIN mockStreamDatabase' \ {streamKey} = DOMAIN mockStreamDatabase \ {streamKey}
    /\ \A k \in DOMAIN mockStreamDatabase \ {streamKey} :
          mockStreamDatabase'[k] = mockStreamDatabase[k]

C40_MetadataLimitsAndStoreIsolation ==
    [][lastOp'.op = "updateYouTubeStreamMetadata"
          => LET streamKey == Val(lastOp'.input).streamKey
                 metadata == Val(lastOp'.input).metadata
             IN  /\ ~WithinLimits(streamKey, metadata)
                       => ~lastOp'.success /\ lastOp'.error # "YouTube API quota exceeded"
                 /\ WithinLimits(streamKey, metadata)
                       => lastOp'.success \/ lastOp'.error = "YouTube API quota exceeded"
                 /\ ~lastOp'.success => mockStreamDatabase' = mockStreamDatabase
                 /\ lastOp'.success
                       => /\ OtherEntriesKept(streamKey)
                          /\ streamKey \in DOMAIN mockStreamDatabase']_vars

\* A call with a title of 100 characters, a description of 5000 and 30 tags
\* was accepted while the store held the entry of another stream key, and
\* the title is in the entry of its key.
C40_Witness ==
    /\ lastOp.op = "updateYouTubeStreamMetadata"
    /\ lastOp.success
    /\ DOMAIN Val(lastOp.input).metadata = {"title", "description", "tags"}
    /\ Len(Val(lastOp.input).metadata["title"]) = 100
    /\ Len(Val(lastOp.input).metadata["description"]) = 5000
    /\ Len(Val(lastOp.input).metadata["tags"]) = 30
    /\ Cardinality(DOMAIN mockStreamDatabase) = 2
    /\ mockStreamDatabase[Val(lastOp.input).streamKey].streamTitle
          = Val(lastOp.input).metadata["title"]

\* A call with a title of 101 characters was refused while the store held
\* an entry.
C40_WitnessRefused ==
    /\ lastOp.op = "updateYouTubeStreamMetadata"
    /\ ~lastOp.success
    /\ lastOp.error = "Stream title exceeds 100 character limit"
    /\ DOMAIN mockStreamDatabase # {}

====
